---- MODULE Spec2Model ----
(***************************************************************************)
(* Enrichment-and-scheduling engine of the three-tier edge scheduler:      *)
(* tier2.py (tier decision, budgeted Tier-2 scheduler), tier1.py (Dif-Min  *)
(* and Dif-HEFT), main.py (streaming mode) and simPy.py (discrete-event    *)
(* simulation).                                                            *)
(*                                                                         *)
(* Units.  The program computes with floats.  The model keeps every time   *)
(* (local_time, offload_time, deadline_ms, EET, the simulation clock) in   *)
(* tenths of a millisecond and every energy in hundredths of a joule, and  *)
(* draws workloads from multiples of 100, for which all of these are       *)
(* integers and the program's comparisons are exact.  SpecFloat, at the    *)
(* end, keeps the simulation's times as floats, rounded as Python rounds.  *)
(***************************************************************************)
EXTENDS Integers, Sequences, FiniteSets, TLC

VARIABLES
    mode,         \* which entry point runs: "tier2", "tier1", "stream", "queue",
                  \* "sim", "decide", "loop", "enrich", "float"
    tasks,        \* the task dicts created so far, by creation index
    \* ---- tier2.schedule_tier2, one loop iteration per step
    t2_pc, t2_max, t2_entry, t2_rest, used_time, executed, fallback,
    \* ---- tier1.inter_core_schedule / dif_heft_schedule, one iteration per step
    t1_pc,        \* "idle", "min", "heft", "done", "raised"
    t1_alg,       \* the algorithm of the current or last call
    U,            \* Dif-Min: unmapped task ids; Dif-HEFT: rest of sorted_tasks
    ET_table,     \* Dif-Min: committed time per resource
    ready_time,   \* Dif-HEFT: ready time per resource
    finish_times, \* Dif-HEFT: finish time per scheduled task id
    allocations,  \* tid -> <<resource, completion time>>
    \* ---- main.py, streaming mode
    task_queue,   \* the EDF heap (a list in heap order) of task ids
    TIER1_BUFFER, TIER2_BUFFER,
    slam_read, voice_read,    \* lines of each file consumed by stream_inputs
    slam_lines, voice_lines,  \* lines in each file
    pc,           \* position of each thread: "main" and "sched"
    ret,          \* which call site a thread's flush returns to
    sched_task,   \* scheduler_loop: the task just popped
    fl_fallback,  \* per thread: flush_tier2's fallback still to append
    \* history of the streaming run (not program state)
    h_in1, h_in2,           \* ids ever appended to TIER1_BUFFER / TIER2_BUFFER
    h_batches1, h_batches2, \* the batches handed to each scheduler, concatenated
    h_fellback,             \* ids that Tier-2 admission rejected
    \* ---- simPy.py, simulation mode (the heap is task_queue above)
    sim_pc,       \* "off", "run", "ended", "crashed"
    now,          \* env.now
    sim_events,   \* the environment's scheduled events, in scheduling order
    sim_active,   \* "scheduler" while the scheduler process runs, else "none"
    src_count,    \* task_source: events emitted
    src_prev_task_ts, src_last_voice,   \* task_source: prev_task_ts, last_voice
    sch_pc,       \* scheduler: the yield it is suspended at
    sch_task, sch_start,        \* scheduler: task and start_time of the pop
    tier2_used_time, tier1_batch,
    users, queue, \* per resource: the requests granted / waiting, by task id
    rl,           \* the run_local_task processes, by task id
    results, metrics,
    \* ---- main.py under a wall clock, one scheduler_loop iteration per step
    \*      (the heap and the buffers are the streaming ones above)
    clock,            \* time.time() since the start of the program
    last_flush_time,
    next_arrival,     \* stream_inputs: end of its current sleep
    sched_wake        \* scheduler_loop: end of its current sleep

varsT2 == <<t2_pc, t2_max, t2_entry, t2_rest, used_time, executed, fallback>>
varsT1 == <<t1_pc, t1_alg, U, ET_table, ready_time, finish_times, allocations>>
varsStream == <<task_queue, TIER1_BUFFER, TIER2_BUFFER, slam_read, voice_read,
                slam_lines, voice_lines, pc, ret, sched_task, fl_fallback,
                h_in1, h_in2, h_batches1, h_batches2, h_fellback>>
varsSim == <<sim_pc, now, sim_events, sim_active, src_count, src_prev_task_ts, src_last_voice,
             sch_pc, sch_task, sch_start, tier2_used_time, tier1_batch,
             users, queue, rl, results, metrics>>
varsLoop == <<clock, last_flush_time, next_arrival, sched_wake>>
vars == <<mode, tasks, varsT2, varsT1, varsStream, varsSim, varsLoop>>

----------------------------------------------------------------------------
(* Bounds of the model *)
MaxT2Tasks == 3          \* longest list handed to schedule_tier2
MaxBatch == 3            \* largest batch handed to a Tier-1 algorithm in SpecT1
MaxLines == 3            \* most lines in each of the two streamed files

----------------------------------------------------------------------------
(* Generic helpers *)

Range(s) == {s[i] : i \in 1..Len(s)}

SeqsUpTo(S, n) == UNION {[1..k -> S] : k \in 0..n}

RECURSIVE SumOver(_, _)
\* sum of f[x] over the elements of sequence s
SumOver(s, f) == IF s = <<>> THEN 0 ELSE f[Head(s)] + SumOver(Tail(s), f)

Count(s, x) == Cardinality({i \in 1..Len(s) : s[i] = x})

Threads == {"main", "sched"}

----------------------------------------------------------------------------
(* QoE.py *)

None == "None"

\* An event is the JSON record of one line, reduced to what enrich_task reads:
\*   ts        the "ts" field, in hundredths of its unit (0.05 is 5)
\*   obstacle, vo_ok   the flags (with their defaults when absent)
\*   near      whether any detection has near set
\*   conf      the largest detection confidence, in percent (0 without detections)
\*   voice     the keywords the lower-cased voice_text contains
\*   workload, Din, Dout   with their defaults 100, 20, 10 when absent
Keywords == {"obstacle", "start", "stop", "turn left", "turn right"}
CommandKeywords == {"start", "stop", "turn left", "turn right"}

\* lines 6-9 and 31: DEADLINE_TABLE.get(task_type, 100), in ms
base_deadline(task_type) ==
    CASE task_type = "slam" -> 10
      [] task_type = "voice_recognition" -> 150
      [] OTHER -> 100

\* lines 12-16: local_exec(w) with fL = 50, alpha = 0.5, beta = 0.2
local_exec(w) ==
    [time |-> (w * 10) \div 50, energy |-> 50 + (20 * w) \div 50]

\* lines 19-27: offload_exec(w, Din, Dout) with f_off = 200, r_in = r_out = 10,
\* Pin = 0.3, Pout = 0.2
offload_exec(w, Din, Dout) ==
    [time |-> Din + Dout + (w * 10) \div 200, energy |-> 3 * Din + 2 * Dout]

\* line 46: ci_json["ts"] - prev_task_ts < 0.05
TemporalGap == 5

\* lines 38-49: the severity score of a SLAM event
slam_score(e, prev_task_ts, last_voice) ==
      (IF e.obstacle THEN 50 ELSE 0)
    + (IF e.near THEN 30 ELSE 0)
    - (IF ~e.vo_ok THEN 10 ELSE 0)
    + (e.conf * 20) \div 100
    + (IF prev_task_ts # 0 /\ e.ts - prev_task_ts < TemporalGap THEN 10 ELSE 0)
    + (IF "obstacle" \in last_voice THEN 20 ELSE 0)

\* score <= 0 is tested before vo_ok
slam_class_insensitive_first(e, score) ==
    IF score >= 60 THEN "QoE-Safety"
    ELSE IF score >= 30 THEN "QoE-Time"
    ELSE IF score <= 0 THEN "QoE-Insensitive"
    ELSE IF ~e.vo_ok THEN "QoE-Robustness"
    ELSE "QoE-Time"

\* lines 53-62
slam_class(e, score) ==
    IF score >= 60 THEN "QoE-Safety"
    ELSE IF score >= 30 THEN "QoE-Time"
    ELSE IF ~e.vo_ok THEN "QoE-Robustness"
    ELSE IF score <= 0 THEN "QoE-Insensitive"
    ELSE "QoE-Time"

\* lines 30-95.  deadline_ms is returned in tenths of a millisecond.
enrich_task(e, task_type, prev_task_ts, last_voice) ==
    LET base == base_deadline(task_type)
        score == slam_score(e, prev_task_ts, last_voice)
        deadline ==
            IF task_type = "slam"
            THEN (IF base - score >= 5 THEN base - score ELSE 5)
            ELSE IF task_type = "voice_recognition"
            THEN (IF "obstacle" \in e.voice THEN 30
                  ELSE IF e.voice \cap CommandKeywords # {} THEN 60
                  ELSE 200)
            ELSE base
        qoe_class ==
            IF task_type = "slam" THEN slam_class(e, score)
            ELSE IF task_type = "voice_recognition"
            THEN (IF "obstacle" \in e.voice THEN "QoE-Safety"
                  ELSE IF e.voice \cap CommandKeywords # {} THEN "QoE-Time"
                  ELSE "QoE-Energy")
            ELSE "QoE-Insensitive"
        loc == local_exec(e.workload)
        off == offload_exec(e.workload, e.Din, e.Dout)
    IN [task |-> task_type, timestamp |-> e.ts, deadline_ms |-> deadline * 10,
        QoE_class |-> qoe_class,
        local_time |-> loc.time, local_energy |-> loc.energy,
        offload_time |-> off.time, offload_energy |-> off.energy,
        assigned_tier |-> None, deps |-> {}, data |-> e]

SlamEvent(ts, obstacle, near, vo_ok, conf, w) ==
    [ts |-> ts, obstacle |-> obstacle, near |-> near, vo_ok |-> vo_ok, conf |-> conf,
     voice |-> {}, workload |-> w, Din |-> 20, Dout |-> 10]

VoiceEvent(ts, voice, w) ==
    [ts |-> ts, obstacle |-> FALSE, near |-> FALSE, vo_ok |-> TRUE, conf |-> 0,
     voice |-> voice, workload |-> w, Din |-> 20, Dout |-> 10]

----------------------------------------------------------------------------
(* tier2.py *)

PinnedClasses == {"QoE-Safety", "QoE-Time", "QoE-Robustness"}

decide_tier_unpinned(task) ==
    IF task.offload_time <= task.deadline_ms
       /\ task.offload_energy < task.local_energy
    THEN "Tier-2" ELSE "Tier-1"

\* an offload of equal energy is also chosen
decide_tier_energy_not_strict(task) ==
    IF task.QoE_class \in PinnedClasses THEN "Tier-1"
    ELSE IF task.offload_time <= task.deadline_ms
            /\ task.offload_energy <= task.local_energy
         THEN "Tier-2"
         ELSE "Tier-1"

decide_tier(task) ==
    IF task.QoE_class \in PinnedClasses THEN "Tier-1"
    ELSE IF task.offload_time <= task.deadline_ms
            /\ task.offload_energy < task.local_energy
         THEN "Tier-2"
         ELSE "Tier-1"

\* the Tier-2 tasks of the list, the last one first
RECURSIVE tier2_filter_reversed(_, _)
tier2_filter_reversed(store, tasks_all) ==
    IF tasks_all = <<>> THEN <<>>
    ELSE tier2_filter_reversed(store, Tail(tasks_all))
         \o (IF store[Head(tasks_all)].assigned_tier = "Tier-2"
             THEN <<Head(tasks_all)>> ELSE <<>>)

\* line 93: the ids of tasks_all whose assigned_tier is Tier-2, in order
tier2_filter(store, tasks_all) ==
    SelectSeq(tasks_all, LAMBDA i : store[i].assigned_tier = "Tier-2")

tier2_admits_ignoring_task(used, off, max_time) == used <= max_time

\* line 99: the admission test of one loop iteration
tier2_admits(used, off, max_time) == used + off <= max_time

\* lines 98-104: one iteration of the loop, on task id i.
\* st = [store, used, executed, fallback]
tier2_iter_no_relabel(st, i, max_time) ==
    IF tier2_admits(st.used, st.store[i].offload_time, max_time)
    THEN [st EXCEPT !.executed = Append(@, i),
                    !.used = @ + st.store[i].offload_time]
    ELSE [st EXCEPT !.fallback = Append(@, i)]

\* the fallback also rewrites a cost field
tier2_iter_clears_cost(st, i, max_time) ==
    IF tier2_admits(st.used, st.store[i].offload_time, max_time)
    THEN [st EXCEPT !.executed = Append(@, i),
                    !.used = @ + st.store[i].offload_time]
    ELSE [st EXCEPT !.store[i].assigned_tier = "Tier-1",
                    !.store[i].offload_time = 0,
                    !.fallback = Append(@, i)]

tier2_iter(st, i, max_time) ==
    IF tier2_admits(st.used, st.store[i].offload_time, max_time)
    THEN [st EXCEPT !.executed = Append(@, i),
                    !.used = @ + st.store[i].offload_time]
    ELSE [st EXCEPT !.store[i].assigned_tier = "Tier-1",
                    !.fallback = Append(@, i)]

RECURSIVE tier2_loop(_, _, _)
tier2_loop(st, rest, max_time) ==
    IF rest = <<>> THEN st
    ELSE tier2_loop(tier2_iter(st, Head(rest), max_time), Tail(rest), max_time)

\* the whole call: [store, used, executed, fallback] on return
schedule_tier2(store, tasks_all, max_time) ==
    tier2_loop([store |-> store, used |-> 0, executed |-> <<>>, fallback |-> <<>>],
               tier2_filter(store, tasks_all), max_time)

----------------------------------------------------------------------------
(* tier1.py *)

RESOURCES == <<"CPU", "GPU", "DSP">>
ResourceSet == Range(RESOURCES)

ZeroTable == [r \in ResourceSet |-> 0]
NoAllocations == [x \in {} |-> <<>>]

\* the scheduling id of a task: (timestamp, task)
tid(t) == <<t.timestamp, t.task>>

\* lines 10-21: base * 1.0, base * 0.5, base * 0.8
build_eet(task) ==
    [r \in ResourceSet |->
        CASE r = "CPU" -> (task.local_time * 10) \div 10
          [] r = "GPU" -> (task.local_time * 5) \div 10
          [] r = "DSP" -> (task.local_time * 8) \div 10]

MinOf(f) == CHOOSE v \in Range([i \in 1..Len(RESOURCES) |-> f[RESOURCES[i]]]) :
                \A r \in ResourceSet : v <= f[r]
MaxOf(f) == CHOOSE v \in Range([i \in 1..Len(RESOURCES) |-> f[RESOURCES[i]]]) :
                \A r \in ResourceSet : v >= f[r]

\* lines 48-54 and 75-81: scan RESOURCES in order, keep the first strictly
\* smaller completion time
first_min_resource(ct) ==
    LET i == CHOOSE i \in 1..Len(RESOURCES) :
                /\ \A j \in 1..Len(RESOURCES) : ct[RESOURCES[i]] <= ct[RESOURCES[j]]
                /\ \A j \in 1..(i - 1) : ct[RESOURCES[j]] > ct[RESOURCES[i]]
    IN RESOURCES[i]

\* lines 37-40: Div = worst / best, Sub = worst - best.  Div is kept as the
\* pair (worst, best) and compared by cross-multiplication.
Worst(t) == MaxOf(build_eet(t))
Best(t) == MinOf(build_eet(t))
Sub(t) == Worst(t) - Best(t)
DivLess(a, b) == Worst(a) * Best(b) < Worst(b) * Best(a)
DivEq(a, b) == Worst(a) * Best(b) = Worst(b) * Best(a)

\* line 44: the sort key (Div, -Sub)
DiffKeyLess(a, b) == DivLess(a, b) \/ (DivEq(a, b) /\ Sub(a) > Sub(b))

\* line 39: worst / best raises ZeroDivisionError when best is 0
dif_min_raises(store, unmapped) ==
    \E k \in 1..Len(unmapped) : Best(store[unmapped[k]]) = 0

\* the first task of U, whatever its key
dif_min_select_first(store, unmapped) == Head(unmapped)

\* lines 44-45: diffs.sort is stable, diffs[0] is the first task of U with the
\* least key
dif_min_select(store, unmapped) ==
    LET k == CHOOSE k \in 1..Len(unmapped) :
                /\ \A j \in 1..Len(unmapped) :
                      ~DiffKeyLess(store[unmapped[j]], store[unmapped[k]])
                /\ \A j \in 1..(k - 1) :
                      DiffKeyLess(store[unmapped[k]], store[unmapped[j]])
    IN unmapped[k]

RemoveFirst(s, x) ==
    LET k == CHOOSE k \in 1..Len(s) : s[k] = x /\ \A j \in 1..(k - 1) : s[j] # x
    IN [i \in 1..(Len(s) - 1) |-> IF i < k THEN s[i] ELSE s[i + 1]]

\* lines 33-58: one iteration of the while loop.  st = [U, ET, alloc]
dif_min_iter(store, st) ==
    LET ti == dif_min_select(store, st.U)
        eet == build_eet(store[ti])
        ct == [r \in ResourceSet |-> st.ET[r] + eet[r]]
        best_res == first_min_resource(ct)
    IN [U |-> RemoveFirst(st.U, ti),
        ET |-> [st.ET EXCEPT ![best_res] = @ + eet[best_res]],
        alloc |-> (tid(store[ti]) :> <<best_res, ct[best_res]>>) @@ st.alloc]

RECURSIVE dif_min_loop(_, _)
dif_min_loop(store, st) ==
    IF st.U = <<>> THEN [raised |-> FALSE, ET |-> st.ET, alloc |-> st.alloc]
    ELSE IF dif_min_raises(store, st.U)
         THEN [raised |-> TRUE, ET |-> st.ET, alloc |-> st.alloc]
         ELSE dif_min_loop(store, dif_min_iter(store, st))

\* lines 24-60: the whole call on the list `batch` of task ids
inter_core_schedule(store, batch) ==
    dif_min_loop(store, [U |-> batch, ET |-> ZeroTable, alloc |-> NoAllocations])

\* line 66: three times the average EET (the division by len(RESOURCES) does
\* not change the order)
avg_cost(t) ==
    LET eet == build_eet(t) IN eet["CPU"] + eet["GPU"] + eet["DSP"]

\* line 67: sorted(..., reverse=True) is stable: of the tasks with the largest
\* key the first of the list comes first
RECURSIVE sort_by_avg_cost_desc(_, _)
sort_by_avg_cost_desc(store, s) ==
    IF s = <<>> THEN <<>>
    ELSE LET k == CHOOSE k \in 1..Len(s) :
                    /\ \A j \in 1..Len(s) : avg_cost(store[s[j]]) <= avg_cost(store[s[k]])
                    /\ \A j \in 1..(k - 1) : avg_cost(store[s[j]]) < avg_cost(store[s[k]])
         IN <<s[k]>> \o sort_by_avg_cost_desc(store,
                 [i \in 1..(Len(s) - 1) |-> IF i < k THEN s[i] ELSE s[i + 1]])

SetMax(S) == CHOOSE v \in S : \A w \in S : w <= v

\* the dependencies are not looked at
pred_finish_ignored(deps, finish) == 0

\* line 72: max(finish_times.get(d, 0) for d in deps) if deps else 0
pred_finish(deps, finish) ==
    IF deps = {} THEN 0
    ELSE SetMax({IF d \in DOMAIN finish THEN finish[d] ELSE 0 : d \in deps})

\* lines 69-85: one iteration of the for loop, on task id i.
\* st = [ready, finish, alloc]
dif_heft_iter(store, st, i) ==
    LET t == store[i]
        pf == pred_finish(t.deps, st.finish)
        eet == build_eet(t)
        ft == [r \in ResourceSet |->
                 (IF st.ready[r] >= pf THEN st.ready[r] ELSE pf) + eet[r]]
        best_res == first_min_resource(ft)
    IN [ready |-> [st.ready EXCEPT ![best_res] = ft[best_res]],
        finish |-> (tid(t) :> ft[best_res]) @@ st.finish,
        alloc |-> (tid(t) :> <<best_res, ft[best_res]>>) @@ st.alloc]

RECURSIVE dif_heft_loop(_, _, _)
dif_heft_loop(store, st, rest) ==
    IF rest = <<>> THEN st
    ELSE dif_heft_loop(store, dif_heft_iter(store, st, Head(rest)), Tail(rest))

\* lines 62-87: the whole call
dif_heft_schedule(store, batch) ==
    dif_heft_loop(store,
                  [ready |-> ZeroTable, finish |-> NoAllocations, alloc |-> NoAllocations],
                  sort_by_avg_cost_desc(store, batch))

----------------------------------------------------------------------------
(* heapq on tuples (deadline_ms, timestamp, task), as main.py and simPy.py use it.
   A heap is the list of task ids in heap order; positions are 0-based as in
   heapq, h[p + 1] is heap[p]. *)

\* tuple comparison on the first two components
TupleLt(store, a, b) ==
    \/ store[a].deadline_ms < store[b].deadline_ms
    \/ /\ store[a].deadline_ms = store[b].deadline_ms
       /\ store[a].timestamp < store[b].timestamp

\* equal deadline and timestamp: the comparison goes on to the task dicts,
\* and `<` between two dicts that are not equal raises TypeError (two equal
\* dicts compare as an equal tuple, which is not less)
TupleTie(store, a, b) ==
    /\ store[a].deadline_ms = store[b].deadline_ms
    /\ store[a].timestamp = store[b].timestamp
    /\ store[a] # store[b]

\* heapq._siftdown(heap, startpos, pos), newitem being held in `item`
RECURSIVE siftdown(_, _, _, _, _)
siftdown(store, h, startpos, pos, item) ==
    IF pos > startpos
    THEN LET parentpos == (pos - 1) \div 2
             parent == h[parentpos + 1]
         IN IF TupleTie(store, item, parent)
            THEN [h |-> h, raised |-> TRUE]
            ELSE IF TupleLt(store, item, parent)
                 THEN siftdown(store, [h EXCEPT ![pos + 1] = parent], startpos, parentpos, item)
                 ELSE [h |-> [h EXCEPT ![pos + 1] = item], raised |-> FALSE]
    ELSE [h |-> [h EXCEPT ![pos + 1] = item], raised |-> FALSE]

\* heapq._siftup(heap, pos): move the smaller child up until a leaf is hit, then
\* sift the item down from there
RECURSIVE siftup(_, _, _, _)
siftup(store, h, pos, item) ==
    LET endpos == Len(h)
        childpos == 2 * pos + 1
        rightpos == childpos + 1
    IN IF childpos < endpos
       THEN IF rightpos < endpos /\ TupleTie(store, h[childpos + 1], h[rightpos + 1])
            THEN [h |-> h, raised |-> TRUE]
            ELSE LET c == IF rightpos < endpos
                             /\ ~TupleLt(store, h[childpos + 1], h[rightpos + 1])
                          THEN rightpos ELSE childpos
                 IN siftup(store, [h EXCEPT ![pos + 1] = h[c + 1]], c, item)
       ELSE siftdown(store, [h EXCEPT ![pos + 1] = item], 0, pos, item)

\* heapq.heappush(heap, item)
heappush(store, h, item) == siftdown(store, Append(h, item), 0, Len(h), item)

\* heapq.heappop(heap) on a non-empty heap: [item, h, raised]
heappop(store, h) ==
    LET lastelt == h[Len(h)]
        rest == SubSeq(h, 1, Len(h) - 1)
    IN IF rest # <<>>
       THEN LET r == siftup(store, [rest EXCEPT ![1] = lastelt], 0, lastelt)
            IN [item |-> rest[1], h |-> r.h, raised |-> r.raised]
       ELSE [item |-> lastelt, h |-> <<>>, raised |-> FALSE]

----------------------------------------------------------------------------
(* The variables of an entry point that is not the one running *)

T2Idle ==
    /\ t2_pc = "off" /\ t2_max = 0 /\ t2_entry = <<>> /\ t2_rest = <<>>
    /\ used_time = 0 /\ executed = <<>> /\ fallback = <<>>

T1Idle ==
    /\ t1_pc = "off" /\ t1_alg = "none" /\ U = <<>>
    /\ ET_table = ZeroTable /\ ready_time = ZeroTable
    /\ finish_times = NoAllocations /\ allocations = NoAllocations

StreamIdle ==
    /\ task_queue = <<>> /\ TIER1_BUFFER = <<>> /\ TIER2_BUFFER = <<>>
    /\ slam_read = 0 /\ voice_read = 0 /\ slam_lines = 0 /\ voice_lines = 0
    /\ pc = [th \in Threads |-> "off"] /\ ret = [th \in Threads |-> "none"]
    /\ sched_task = 0
    /\ fl_fallback = [th \in Threads |-> <<>>]
    /\ h_in1 = {} /\ h_in2 = {} /\ h_batches1 = <<>> /\ h_batches2 = <<>>
    /\ h_fellback = {}

LoopIdle == clock = 0 /\ last_flush_time = 0 /\ next_arrival = 0 /\ sched_wake = 0

TierLabels == {"Tier-1", "Tier-2"}
QoEClasses == {"QoE-Safety", "QoE-Time", "QoE-Robustness", "QoE-Energy", "QoE-Insensitive"}

\* simPy.py lines 190-197: the metrics container (a defaultdict reads 0)
NoMetrics ==
    [total_tasks |-> 0, deadline_met |-> 0, deadline_miss |-> 0,
     tiers |-> [l \in TierLabels |-> 0],
     QoE |-> [c \in QoEClasses |-> 0],
     energy |-> [l \in TierLabels |-> 0]]

SimIdle ==
    /\ sim_pc = "off" /\ now = 0 /\ sim_events = <<>> /\ sim_active = "none"
    /\ src_count = 0 /\ src_prev_task_ts = 0 /\ src_last_voice = {}
    /\ sch_pc = "off" /\ sch_task = 0 /\ sch_start = 0
    /\ tier2_used_time = 0 /\ tier1_batch = <<>>
    /\ users = [r \in ResourceSet |-> <<>>] /\ queue = [r \in ResourceSet |-> <<>>]
    /\ rl = <<>> /\ results = <<>> /\ metrics = NoMetrics

----------------------------------------------------------------------------
(* Specification SpecT1: the two Tier-1 algorithms on successive batches *)

T1LocalTimes == {0, 20, 60}
UnknownTid == <<0, "slam">>

T1Task(i, lt, deps) ==
    [task |-> "slam", timestamp |-> i, deadline_ms |-> 100,
     QoE_class |-> "QoE-Time", local_time |-> lt, local_energy |-> 50 + 2 * lt,
     offload_time |-> 35, offload_energy |-> 80, assigned_tier |-> "Tier-1",
     deps |-> deps]

\* a task depends on nothing, on an id that names no task of the batch, or on
\* the task before it in the list
T1DepChoices(i) ==
    {{}, {UnknownTid}} \cup (IF i > 1 THEN {{<<i - 1, "slam">>}} ELSE {})

T1DepAssignments(n) ==
    LET universe == UNION {T1DepChoices(i) : i \in 1..n}
    IN {d \in [1..n -> universe] : \A i \in 1..n : d[i] \in T1DepChoices(i)}

\* Dif-Min never reads deps, so its batches carry none
T1Batches(withDeps) ==
    UNION {
        {[i \in 1..n |-> T1Task(i, lts[i], ds[i])] :
            lts \in [1..n -> T1LocalTimes],
            ds \in IF withDeps THEN T1DepAssignments(n) ELSE {[i \in 1..n |-> {}]}}
        : n \in 0..MaxBatch}

InitT1 ==
    /\ mode = "tier1"
    /\ tasks = <<>>
    /\ T2Idle /\ StreamIdle /\ SimIdle /\ LoopIdle
    /\ t1_pc = "idle" /\ t1_alg = "none" /\ U = <<>>
    /\ ET_table = ZeroTable /\ ready_time = ZeroTable
    /\ finish_times = NoAllocations /\ allocations = NoAllocations

AllIds == [i \in 1..Len(tasks) |-> i]

\* lines 29-31: inter_core_schedule is entered with a batch
DifMinEnter ==
    /\ mode = "tier1" /\ t1_pc = "idle"
    /\ \E batch \in T1Batches(FALSE) :
          /\ tasks' = batch
          /\ U' = [i \in 1..Len(batch) |-> i]
    /\ ET_table' = ZeroTable
    /\ allocations' = NoAllocations
    /\ t1_alg' = "min" /\ t1_pc' = "min"
    /\ ready_time' = ZeroTable      \* no local of the other algorithm exists
    /\ UNCHANGED <<mode, varsLoop, varsSim, varsT2, varsStream, finish_times>>

\* lines 33-58, one iteration
DifMinIterate ==
    /\ mode = "tier1" /\ t1_pc = "min" /\ U # <<>>
    /\ ~dif_min_raises(tasks, U)
    /\ LET st == dif_min_iter(tasks, [U |-> U, ET |-> ET_table, alloc |-> allocations])
       IN /\ U' = st.U
          /\ ET_table' = st.ET
          /\ allocations' = st.alloc
    /\ UNCHANGED <<mode, varsLoop, varsSim, tasks, varsT2, varsStream, t1_pc, t1_alg, ready_time, finish_times>>

\* line 39 raises ZeroDivisionError, which leaves the call
DifMinRaise ==
    /\ mode = "tier1" /\ t1_pc = "min" /\ U # <<>>
    /\ dif_min_raises(tasks, U)
    /\ t1_pc' = "raised"
    /\ UNCHANGED <<mode, varsLoop, varsSim, tasks, varsT2, varsStream, t1_alg, U, ET_table, ready_time,
                   finish_times, allocations>>

\* line 60
DifMinReturn ==
    /\ mode = "tier1" /\ t1_pc = "min" /\ U = <<>>
    /\ t1_pc' = "done"
    /\ UNCHANGED <<mode, varsLoop, varsSim, tasks, varsT2, varsStream, t1_alg, U, ET_table, ready_time,
                   finish_times, allocations>>

\* lines 63-67: dif_heft_schedule is entered with a batch
DifHeftEnter ==
    /\ mode = "tier1" /\ t1_pc = "idle"
    /\ \E batch \in T1Batches(TRUE) :
          /\ tasks' = batch
          /\ U' = sort_by_avg_cost_desc(batch, [i \in 1..Len(batch) |-> i])
    /\ ready_time' = ZeroTable
    /\ finish_times' = NoAllocations
    /\ allocations' = NoAllocations
    /\ t1_alg' = "heft" /\ t1_pc' = "heft"
    /\ ET_table' = ZeroTable        \* no local of the other algorithm exists
    /\ UNCHANGED <<mode, varsLoop, varsSim, varsT2, varsStream>>

\* lines 69-85, one iteration
DifHeftIterate ==
    /\ mode = "tier1" /\ t1_pc = "heft" /\ U # <<>>
    /\ LET st == dif_heft_iter(tasks, [ready |-> ready_time, finish |-> finish_times,
                                       alloc |-> allocations], Head(U))
       IN /\ ready_time' = st.ready
          /\ finish_times' = st.finish
          /\ allocations' = st.alloc
    /\ U' = Tail(U)
    /\ UNCHANGED <<mode, varsLoop, varsSim, tasks, varsT2, varsStream, t1_pc, t1_alg, ET_table>>

\* line 87
DifHeftReturn ==
    /\ mode = "tier1" /\ t1_pc = "heft" /\ U = <<>>
    /\ t1_pc' = "done"
    /\ UNCHANGED <<mode, varsLoop, varsSim, tasks, varsT2, varsStream, t1_alg, U, ET_table, ready_time,
                   finish_times, allocations>>

\* the caller has used the result (or the exception has propagated) and the
\* next batch may be scheduled
T1NextBatch ==
    /\ mode = "tier1" /\ t1_pc \in {"done", "raised"}
    /\ t1_pc' = "idle"
    /\ tasks' = <<>> /\ U' = <<>>
    /\ finish_times' = NoAllocations /\ allocations' = NoAllocations
    /\ UNCHANGED <<mode, varsLoop, varsSim, varsT2, varsStream, t1_alg, ET_table, ready_time>>

NextT1 ==
    \/ DifMinEnter \/ DifMinIterate \/ DifMinRaise \/ DifMinReturn
    \/ DifHeftEnter \/ DifHeftIterate \/ DifHeftReturn
    \/ T1NextBatch

SpecT1 == InitT1 /\ [][NextT1]_vars

----------------------------------------------------------------------------
(* Specification SpecT2: schedule_tier2 on an arbitrary list and budget *)

T2OffloadTimes == {0, 400, 600, 1030}
T2Budgets == {0, 1000, 2000}

T2Task(i, off, tier) ==
    [task |-> "voice_recognition", timestamp |-> i, deadline_ms |-> 2000,
     QoE_class |-> "QoE-Energy", local_time |-> 20, local_energy |-> 90,
     offload_time |-> off, offload_energy |-> 80, assigned_tier |-> tier,
     deps |-> {}]

InitT2 ==
    /\ mode = "tier2"
    /\ \E n \in 0..MaxT2Tasks :
         \E offs \in [1..n -> T2OffloadTimes], tiers \in [1..n -> {"Tier-1", "Tier-2"}] :
            tasks = [i \in 1..n |-> T2Task(i, offs[i], tiers[i])]
    /\ t2_max \in T2Budgets
    /\ t2_pc = "call"
    /\ t2_entry = <<>> /\ t2_rest = <<>>
    /\ used_time = 0 /\ executed = <<>> /\ fallback = <<>>
    /\ T1Idle /\ StreamIdle /\ SimIdle /\ LoopIdle

\* lines 93-96
T2Enter ==
    /\ mode = "tier2" /\ t2_pc = "call"
    /\ t2_entry' = [i \in 1..Len(tasks) |-> tasks[i].assigned_tier]
    /\ t2_rest' = tier2_filter(tasks, [i \in 1..Len(tasks) |-> i])
    /\ executed' = <<>> /\ fallback' = <<>> /\ used_time' = 0
    /\ t2_pc' = "loop"
    /\ UNCHANGED <<mode, varsLoop, varsSim, tasks, t2_max, varsT1, varsStream>>

\* lines 98-104, one iteration
T2Iterate ==
    /\ mode = "tier2" /\ t2_pc = "loop" /\ t2_rest # <<>>
    /\ LET st == tier2_iter([store |-> tasks, used |-> used_time,
                             executed |-> executed, fallback |-> fallback],
                            Head(t2_rest), t2_max)
       IN /\ tasks' = st.store
          /\ used_time' = st.used
          /\ executed' = st.executed
          /\ fallback' = st.fallback
    /\ t2_rest' = Tail(t2_rest)
    /\ UNCHANGED <<mode, varsLoop, varsSim, t2_pc, t2_max, t2_entry, varsT1, varsStream>>

\* line 106
T2Return ==
    /\ mode = "tier2" /\ t2_pc = "loop" /\ t2_rest = <<>>
    /\ t2_pc' = "done"
    /\ UNCHANGED <<mode, varsLoop, varsSim, tasks, t2_max, t2_entry, t2_rest, used_time, executed, fallback, varsT1, varsStream>>

NextT2 == T2Enter \/ T2Iterate \/ T2Return

SpecT2 == InitT2 /\ [][NextT2]_vars

----------------------------------------------------------------------------
(* Specification SpecStream: main.py, the streaming mode.

   Two threads run: "main" (stream_inputs, then the final flushes) and "sched"
   (scheduler_loop, a daemon thread that ends when main ends).  Nothing in
   main.py takes a lock, so the threads interleave between any two of the
   steps below; the time that passes between steps is not constrained (a
   thread may be delayed for any length of time), so the test against
   FLUSH_INTERVAL may succeed whenever the scheduler finds the queue empty. *)

BATCH_SIZE == 5
FLUSH_MAX_TIME == 2000      \* max_time=200 ms of flush_tier2

StreamSlamEvents(ts) ==
    {SlamEvent(ts, TRUE, TRUE, TRUE, 90, 100),     \* obstacle, near detection
     SlamEvent(ts, FALSE, FALSE, TRUE, 0, 100)}    \* nothing seen
StreamVoiceEvents(ts) ==
    {VoiceEvent(ts, {"stop"}, 100),                \* "please stop now"
     VoiceEvent(ts, {}, 20000)}                    \* "play music", heavy workload

\* the k-th line of either file carries ts = 0.05 * k
StreamTs(k) == 5 * k

InitStream ==
    /\ mode = "stream"
    /\ tasks = <<>>
    /\ T2Idle /\ T1Idle /\ SimIdle /\ LoopIdle
    /\ task_queue = <<>> /\ TIER1_BUFFER = <<>> /\ TIER2_BUFFER = <<>>
    /\ slam_read = 0 /\ voice_read = 0
    \* stream_inputs stops at the first file that runs out, so a longer slam
    \* file reads as one of voice_lines + 1 lines, a longer voice file as one
    \* of slam_lines lines
    /\ voice_lines \in 0..MaxLines
    /\ slam_lines \in {voice_lines, voice_lines + 1} \cap (0..MaxLines)
    /\ pc = [th \in Threads |-> IF th = "main" THEN "slam" ELSE "top"]
    /\ ret = [th \in Threads |-> "none"]
    /\ sched_task = 0
    /\ fl_fallback = [th \in Threads |-> <<>>]
    /\ h_in1 = {} /\ h_in2 = {} /\ h_batches1 = <<>> /\ h_batches2 = <<>>
    /\ h_fellback = {}

\* the process runs until the main thread ends (normally or by an exception)
ProcessAlive == mode = "stream" /\ pc["main"] \notin {"exited", "crashed"}

Goto(th, where) == pc' = [pc EXCEPT ![th] = where]

\* lines 23-27: add_task(json_event, task_type)
add_task(e, task_type, then) ==
    LET enriched == enrich_task(e, task_type, 0, {})
        task == [enriched EXCEPT !.assigned_tier = decide_tier(enriched)]
        store == Append(tasks, task)
        pushed == heappush(store, task_queue, Len(store))
    IN /\ tasks' = store
       /\ task_queue' = pushed.h
       /\ Goto("main", IF pushed.raised THEN "crashed" ELSE then)

\* lines 99-102
StreamSlamLine ==
    /\ ProcessAlive /\ pc["main"] = "slam" /\ slam_read < slam_lines
    /\ \E e \in StreamSlamEvents(StreamTs(slam_read)) : add_task(e, "slam", "voice")
    /\ slam_read' = slam_read + 1
    /\ UNCHANGED <<mode, varsLoop, varsSim, varsT2, varsT1, TIER1_BUFFER, TIER2_BUFFER, voice_read,
                   slam_lines, voice_lines, ret, sched_task, fl_fallback,
                   h_in1, h_in2, h_batches1, h_batches2, h_fellback>>

\* lines 105-110
StreamVoiceLine ==
    /\ ProcessAlive /\ pc["main"] = "voice" /\ voice_read < voice_lines
    /\ \E e \in StreamVoiceEvents(StreamTs(voice_read)) : add_task(e, "voice_recognition", "slam")
    /\ voice_read' = voice_read + 1
    /\ UNCHANGED <<mode, varsLoop, varsSim, varsT2, varsT1, TIER1_BUFFER, TIER2_BUFFER, slam_read,
                   slam_lines, voice_lines, ret, sched_task, fl_fallback,
                   h_in1, h_in2, h_batches1, h_batches2, h_fellback>>

\* lines 112-114 and 127-128: StopIteration from either file ends the
\* streaming; after the sleep main calls flush_tier1()
StreamEnd ==
    /\ ProcessAlive
    /\ \/ pc["main"] = "slam" /\ slam_read = slam_lines
       \/ pc["main"] = "voice" /\ voice_read = voice_lines
    /\ Goto("main", "f1_check")
    /\ ret' = [ret EXCEPT !["main"] = "final"]
    /\ UNCHANGED <<mode, varsLoop, varsSim, tasks, varsT2, varsT1, task_queue, TIER1_BUFFER, TIER2_BUFFER,
                   slam_read, voice_read, slam_lines, voice_lines, sched_task,
                   fl_fallback,
                   h_in1, h_in2, h_batches1, h_batches2, h_fellback>>

\* where a thread continues after flush_tier1 and after flush_tier2
After1(th) == IF ret[th] = "size" THEN "top" ELSE "f2_check"
After2(th) == IF th = "main" THEN "exited" ELSE "top"

\* flush_tier1 without the test of lines 34-35
flush1_check_always_calls(th) ==
    /\ ProcessAlive /\ pc[th] = "f1_check"
    /\ Goto(th, "f1_call")
    /\ UNCHANGED <<mode, varsLoop, varsSim, tasks, varsT2, varsT1, task_queue, TIER1_BUFFER, TIER2_BUFFER,
                   slam_read, voice_read, slam_lines, voice_lines, ret, sched_task,
                   fl_fallback,
                   h_in1, h_in2, h_batches1, h_batches2, h_fellback>>

\* lines 34-35
Flush1Check(th) ==
    /\ ProcessAlive /\ pc[th] = "f1_check"
    /\ Goto(th, IF TIER1_BUFFER = <<>> THEN After1(th) ELSE "f1_call")
    /\ UNCHANGED <<mode, varsLoop, varsSim, tasks, varsT2, varsT1, task_queue, TIER1_BUFFER, TIER2_BUFFER,
                   slam_read, voice_read, slam_lines, voice_lines, ret, sched_task,
                   fl_fallback,
                   h_in1, h_in2, h_batches1, h_batches2, h_fellback>>

\* lines 36-39: inter_core_schedule takes its copy of the buffer (U = tasks[:])
\* and returns the allocations, or raises
Flush1Call(th) ==
    /\ ProcessAlive /\ pc[th] = "f1_call"
    /\ LET r == inter_core_schedule(tasks, TIER1_BUFFER)
       IN Goto(th, IF r.raised THEN "crashed" ELSE "f1_clear")
    /\ h_batches1' = h_batches1 \o TIER1_BUFFER
    /\ UNCHANGED <<mode, varsLoop, varsSim, tasks, varsT2, varsT1, task_queue, TIER1_BUFFER, TIER2_BUFFER,
                   slam_read, voice_read, slam_lines, voice_lines, ret, sched_task,
                   fl_fallback, h_in1, h_in2, h_batches2, h_fellback>>

\* line 40
Flush1Clear(th) ==
    /\ ProcessAlive /\ pc[th] = "f1_clear"
    /\ TIER1_BUFFER' = <<>>
    /\ Goto(th, After1(th))
    /\ UNCHANGED <<mode, varsLoop, varsSim, tasks, varsT2, varsT1, task_queue, TIER2_BUFFER,
                   slam_read, voice_read, slam_lines, voice_lines, ret, sched_task,
                   fl_fallback,
                   h_in1, h_in2, h_batches1, h_batches2, h_fellback>>

\* lines 46-47
Flush2Check(th) ==
    /\ ProcessAlive /\ pc[th] = "f2_check"
    /\ Goto(th, IF TIER2_BUFFER = <<>> THEN After2(th) ELSE "f2_call")
    /\ UNCHANGED <<mode, varsLoop, varsSim, tasks, varsT2, varsT1, task_queue, TIER1_BUFFER, TIER2_BUFFER,
                   slam_read, voice_read, slam_lines, voice_lines, ret, sched_task,
                   fl_fallback,
                   h_in1, h_in2, h_batches1, h_batches2, h_fellback>>

\* lines 48-52: schedule_tier2(TIER2_BUFFER, max_time=200)
Flush2Call(th) ==
    /\ ProcessAlive /\ pc[th] = "f2_call"
    /\ LET st == schedule_tier2(tasks, TIER2_BUFFER, FLUSH_MAX_TIME)
       IN /\ tasks' = st.store
          /\ fl_fallback' = [fl_fallback EXCEPT ![th] = st.fallback]
          /\ h_fellback' = h_fellback \cup Range(st.fallback)
    /\ h_batches2' = h_batches2 \o TIER2_BUFFER
    /\ Goto(th, "f2_append")
    /\ UNCHANGED <<mode, varsLoop, varsSim, varsT2, varsT1, task_queue, TIER1_BUFFER, TIER2_BUFFER,
                   slam_read, voice_read, slam_lines, voice_lines, ret, sched_task,
                   h_in1, h_in2, h_batches1>>

\* lines 53-55, one iteration
Flush2Fallback(th) ==
    /\ ProcessAlive /\ pc[th] = "f2_append" /\ fl_fallback[th] # <<>>
    /\ TIER1_BUFFER' = Append(TIER1_BUFFER, Head(fl_fallback[th]))
    /\ h_in1' = h_in1 \cup {Head(fl_fallback[th])}
    /\ fl_fallback' = [fl_fallback EXCEPT ![th] = Tail(@)]
    /\ UNCHANGED <<mode, varsLoop, varsSim, tasks, varsT2, varsT1, task_queue, TIER2_BUFFER,
                   slam_read, voice_read, slam_lines, voice_lines, pc, ret, sched_task,
                   h_in2, h_batches1, h_batches2, h_fellback>>

\* line 56 (and, in main, the end of the program; in scheduler_loop line 85-86)
Flush2Clear(th) ==
    /\ ProcessAlive /\ pc[th] = "f2_append" /\ fl_fallback[th] = <<>>
    /\ TIER2_BUFFER' = <<>>
    /\ Goto(th, After2(th))
    /\ UNCHANGED <<mode, varsLoop, varsSim, tasks, varsT2, varsT1, task_queue, TIER1_BUFFER,
                   slam_read, voice_read, slam_lines, voice_lines, ret, sched_task,
                   fl_fallback,
                   h_in1, h_in2, h_batches1, h_batches2, h_fellback>>

\* lines 67-68
SchedPop ==
    /\ ProcessAlive /\ pc["sched"] = "top" /\ task_queue # <<>>
    /\ LET r == heappop(tasks, task_queue)
       IN /\ task_queue' = r.h
          /\ sched_task' = r.item
          /\ Goto("sched", IF r.raised THEN "crashed" ELSE "route")
    /\ UNCHANGED <<mode, varsLoop, varsSim, tasks, varsT2, varsT1, TIER1_BUFFER, TIER2_BUFFER,
                   slam_read, voice_read, slam_lines, voice_lines, ret,
                   fl_fallback,
                   h_in1, h_in2, h_batches1, h_batches2, h_fellback>>

\* lines 70-71 and 75-76
SchedRoute ==
    /\ ProcessAlive /\ pc["sched"] = "route"
    /\ IF tasks[sched_task].assigned_tier = "Tier-1"
       THEN /\ TIER1_BUFFER' = Append(TIER1_BUFFER, sched_task)
            /\ h_in1' = h_in1 \cup {sched_task}
            /\ Goto("sched", "len1")
            /\ UNCHANGED <<TIER2_BUFFER, h_in2>>
       ELSE /\ TIER2_BUFFER' = Append(TIER2_BUFFER, sched_task)
            /\ h_in2' = h_in2 \cup {sched_task}
            /\ Goto("sched", "len2")
            /\ UNCHANGED <<TIER1_BUFFER, h_in1>>
    /\ UNCHANGED <<mode, varsLoop, varsSim, tasks, varsT2, varsT1, task_queue,
                   slam_read, voice_read, slam_lines, voice_lines, ret, sched_task,
                   fl_fallback, h_batches1, h_batches2, h_fellback>>

\* lines 72-73 and 77-78
SchedBatchFull ==
    /\ ProcessAlive /\ pc["sched"] \in {"len1", "len2"}
    /\ IF pc["sched"] = "len1"
       THEN IF Len(TIER1_BUFFER) >= BATCH_SIZE
            THEN Goto("sched", "f1_check") /\ ret' = [ret EXCEPT !["sched"] = "size"]
            ELSE Goto("sched", "top") /\ UNCHANGED ret
       ELSE IF Len(TIER2_BUFFER) >= BATCH_SIZE
            THEN Goto("sched", "f2_check") /\ ret' = [ret EXCEPT !["sched"] = "size"]
            ELSE Goto("sched", "top") /\ UNCHANGED ret
    /\ UNCHANGED <<mode, varsLoop, varsSim, tasks, varsT2, varsT1, task_queue, TIER1_BUFFER, TIER2_BUFFER,
                   slam_read, voice_read, slam_lines, voice_lines, sched_task,
                   fl_fallback,
                   h_in1, h_in2, h_batches1, h_batches2, h_fellback>>

\* lines 80-83: the queue is empty and FLUSH_INTERVAL has elapsed
SchedIdleFlush ==
    /\ ProcessAlive /\ pc["sched"] = "top" /\ task_queue = <<>>
    /\ Goto("sched", "f1_check")
    /\ ret' = [ret EXCEPT !["sched"] = "idle"]
    /\ UNCHANGED <<mode, varsLoop, varsSim, tasks, varsT2, varsT1, task_queue, TIER1_BUFFER, TIER2_BUFFER,
                   slam_read, voice_read, slam_lines, voice_lines, sched_task,
                   fl_fallback,
                   h_in1, h_in2, h_batches1, h_batches2, h_fellback>>

NextStream ==
    \/ StreamSlamLine \/ StreamVoiceLine \/ StreamEnd
    \/ SchedPop \/ SchedRoute \/ SchedBatchFull \/ SchedIdleFlush
    \/ \E th \in Threads :
          \/ Flush1Check(th) \/ Flush1Call(th) \/ Flush1Clear(th)
          \/ Flush2Check(th) \/ Flush2Call(th) \/ Flush2Fallback(th) \/ Flush2Clear(th)

SpecStream == InitStream /\ [][NextStream]_vars

----------------------------------------------------------------------------
(* Specification SpecQueue: the EDF heap alone.  add_task (main.py lines 23-27,
   the same three statements as simPy.py lines 38-44) pushes and the scheduler
   (main.py lines 67-68, simPy.py lines 70-72) pops, in any interleaving and
   for events with any timestamps. *)

MaxQueued == 4
QueueTs == {0, 5}

QueueEvents(ts) ==
    {<<e, "slam">> : e \in StreamSlamEvents(ts)
                        \cup {SlamEvent(ts, TRUE, TRUE, TRUE, 95, 100)}}
    \cup {<<e, "voice_recognition">> : e \in StreamVoiceEvents(ts)}

InitQueue ==
    /\ mode = "queue"
    /\ tasks = <<>>
    /\ T2Idle /\ T1Idle /\ SimIdle /\ LoopIdle
    /\ task_queue = <<>> /\ TIER1_BUFFER = <<>> /\ TIER2_BUFFER = <<>>
    /\ slam_read = 0 /\ voice_read = 0 /\ slam_lines = 0 /\ voice_lines = 0
    /\ pc = [th \in Threads |-> IF th = "main" THEN "push" ELSE "top"]
    /\ ret = [th \in Threads |-> "none"]
    /\ sched_task = 0
    /\ fl_fallback = [th \in Threads |-> <<>>]
    /\ h_in1 = {} /\ h_in2 = {} /\ h_batches1 = <<>> /\ h_batches2 = <<>>
    /\ h_fellback = {}

QueueAlive == mode = "queue" /\ \A th \in Threads : pc[th] # "crashed"

QueuePush ==
    /\ QueueAlive /\ Len(tasks) < MaxQueued
    /\ \E ts \in QueueTs : \E et \in QueueEvents(ts) : add_task(et[1], et[2], "push")
    /\ UNCHANGED <<mode, varsLoop, varsSim, varsT2, varsT1, TIER1_BUFFER, TIER2_BUFFER, slam_read, voice_read,
                   slam_lines, voice_lines, ret, sched_task, fl_fallback,
                   h_in1, h_in2, h_batches1, h_batches2, h_fellback>>

QueuePop ==
    /\ QueueAlive /\ task_queue # <<>>
    /\ LET r == heappop(tasks, task_queue)
       IN /\ task_queue' = r.h
          /\ sched_task' = r.item
          /\ Goto("sched", IF r.raised THEN "crashed" ELSE "top")
    /\ UNCHANGED <<mode, varsLoop, varsSim, tasks, varsT2, varsT1, TIER1_BUFFER, TIER2_BUFFER,
                   slam_read, voice_read, slam_lines, voice_lines, ret, fl_fallback,
                   h_in1, h_in2, h_batches1, h_batches2, h_fellback>>

NextQueue == QueuePush \/ QueuePop

SpecQueue == InitQueue /\ [][NextQueue]_vars

----------------------------------------------------------------------------
(* Specification SpecSim: simPy.py, run_simulation.

   The environment is simpy's: scheduled events are processed in the order of
   (time, priority, scheduling order); env.process schedules an urgent
   Initialize event at the current time, env.timeout(d) and event.succeed()
   schedule normal events.  One step processes one event and runs the process
   it resumes up to its next yield; the scheduler process, whose loop may go
   round several times between two yields, takes one step per statement group
   while sim_active = "scheduler" (no other process runs in between).  The
   event that ends a finished process has no callback and is left out. *)

SIM_END == 5000           \* 500 ms
MAX_TIER2_TIME == 1000    \* 100 ms
INTER_ARRIVAL == 50       \* env.timeout(5) of task_source
POLL == 10                \* env.timeout(1) of scheduler
MaxEvents == 6
MaxQuiet == 2

varsStreamRest == <<TIER1_BUFFER, TIER2_BUFFER, slam_read, voice_read, slam_lines,
                    voice_lines, pc, ret, sched_task, fl_fallback,
                    h_in1, h_in2, h_batches1, h_batches2, h_fellback>>

Ev(t, p, kind, id) == [time |-> t, prio |-> p, kind |-> kind, id |-> id]
Initialize(t, kind, id) == Ev(t, 0, kind, id)
Timeout(t, d, kind, id) == Ev(t + d, 1, kind, id)
Succeed(t, kind, id) == Ev(t, 1, kind, id)

\* the event env.step() processes next
NextIdx(ev) ==
    CHOOSE k \in 1..Len(ev) : \A j \in 1..Len(ev) :
        \/ ev[k].time < ev[j].time
        \/ ev[k].time = ev[j].time /\ ev[k].prio < ev[j].prio
        \/ ev[k].time = ev[j].time /\ ev[k].prio = ev[j].prio /\ k <= j
RemoveAt(s, k) == [i \in 1..(Len(s) - 1) |-> IF i < k THEN s[i] ELSE s[i + 1]]
NextEvent == sim_events[NextIdx(sim_events)]
Pending == RemoveAt(sim_events, NextIdx(sim_events))

\* the merged, sorted event list holds these kinds of lines; the k-th has
\* ts = 0.05 * k.  A SLAM line that reports nothing (3.5 ms to offload) occurs
\* among the first MaxQuiet lines.
SimEvents(ts) ==
    {<<SlamEvent(ts, TRUE, TRUE, TRUE, 90, 100), "slam">>,    \* obstacle, near detection
     <<VoiceEvent(ts, {}, 19000), "voice_recognition">>}     \* "play music", 98 ms to offload
    \cup (IF ts < StreamTs(MaxQuiet)
          THEN {<<SlamEvent(ts, FALSE, FALSE, TRUE, 0, 100), "slam">>}
          ELSE {})

capacity_two(r) == 2

\* lines 19-24: simpy.Resource(env, capacity=1)
capacity(r) == 1

\* the request at the tail of the queue is granted
trigger_put_lifo(us, qu, ev, r, t) ==
    IF qu[r] # <<>> /\ Len(us[r]) < capacity(r)
    THEN [users |-> [us EXCEPT ![r] = Append(@, qu[r][Len(qu[r])])],
          queue |-> [qu EXCEPT ![r] = SubSeq(@, 1, Len(@) - 1)],
          events |-> Append(ev, Succeed(t, "rl_granted", qu[r][Len(qu[r])]))]
    ELSE [users |-> us, queue |-> qu, events |-> ev]

\* simpy Resource._trigger_put: the request at the head of the queue is
\* granted when a slot is free
trigger_put(us, qu, ev, r, t) ==
    IF qu[r] # <<>> /\ Len(us[r]) < capacity(r)
    THEN [users |-> [us EXCEPT ![r] = Append(@, Head(qu[r]))],
          queue |-> [qu EXCEPT ![r] = Tail(@)],
          events |-> Append(ev, Succeed(t, "rl_granted", Head(qu[r])))]
    ELSE [users |-> us, queue |-> qu, events |-> ev]

\* the deadline is compared with the finish time, not with the response time
update_metrics_ignores_start(task, start, finish, tier, m) ==
    LET met_deadline == finish <= task.deadline_ms
    IN [m EXCEPT !.total_tasks = @ + 1,
                 !.tiers[tier] = @ + 1,
                 !.QoE[task.QoE_class] = @ + 1,
                 !.deadline_met = @ + (IF met_deadline THEN 1 ELSE 0),
                 !.deadline_miss = @ + (IF met_deadline THEN 0 ELSE 1),
                 !.energy[tier] = @ + (IF tier = "Tier-1" THEN task.local_energy
                                       ELSE task.offload_energy)]

\* lines 162-180
update_metrics(task, start, finish, tier, m) ==
    LET met_deadline == finish - start <= task.deadline_ms
    IN [m EXCEPT !.total_tasks = @ + 1,
                 !.tiers[tier] = @ + 1,
                 !.QoE[task.QoE_class] = @ + 1,
                 !.deadline_met = @ + (IF met_deadline THEN 1 ELSE 0),
                 !.deadline_miss = @ + (IF met_deadline THEN 0 ELSE 1),
                 !.energy[tier] = @ + (IF tier = "Tier-1" THEN task.local_energy
                                       ELSE task.offload_energy)]

\* tier_label + "-" + resource_name
LocalLabel(r) ==
    CASE r = "CPU" -> "Tier-1-CPU" [] r = "GPU" -> "Tier-1-GPU" [] r = "DSP" -> "Tier-1-DSP"

\* lines 82-106 and 137-155: schedule the batch and start one run_local_task per
\* allocation.  The result is the run_local_task processes to add, in the
\* order of allocations.items().
batch_tasks(batch) == [i \in 1..Len(batch) |-> batch[i][1]]
tid_to_info(store, batch, x) ==
    LET k == CHOOSE k \in 1..Len(batch) :
                 /\ tid(store[batch[k][1]]) = x
                 /\ \A j \in (k + 1)..Len(batch) : tid(store[batch[j][1]]) # x
    IN batch[k]
\* every allocation is started twice
schedule_batch_twice(store, batch) ==
    LET ids == batch_tasks(batch)
        allocs == dif_heft_schedule(store, ids).alloc
        sorted == sort_by_avg_cost_desc(store, ids)
        procs == [i \in 1..Len(sorted) |->
                    [task |-> sorted[i], res |-> allocs[tid(store[sorted[i]])][1],
                     exec_time |-> build_eet(store[sorted[i]])[allocs[tid(store[sorted[i]])][1]],
                     start_time |-> batch[1][2], state |-> "created", actual_start |-> 0]]
    IN procs \o procs

schedule_batch(store, batch) ==
    LET ids == batch_tasks(batch)
        allocs == dif_heft_schedule(store, ids).alloc
        sorted == sort_by_avg_cost_desc(store, ids)
        keys == SelectSeq([i \in 1..Len(sorted) |-> <<i, tid(store[sorted[i]])>>],
                          LAMBDA q : \A j \in 1..(q[1] - 1) : tid(store[sorted[j]]) # q[2])
    IN [i \in 1..Len(keys) |->
          LET info == tid_to_info(store, batch, keys[i][2])
              res == allocs[keys[i][2]][1]
          IN [task |-> info[1], res |-> res,
              exec_time |-> build_eet(store[info[1]])[res],
              start_time |-> info[2], state |-> "created", actual_start |-> 0]]

\* env.process(run_local_task(...)) for each of them
start_processes(ev, procs, t) ==
    ev \o [i \in 1..Len(procs) |-> Initialize(t, "rl_init", Len(rl) + i)]

InitSim ==
    /\ mode = "sim"
    /\ tasks = <<>>
    /\ T2Idle /\ T1Idle /\ StreamIdle /\ LoopIdle
    /\ sim_pc = "run" /\ now = 0 /\ sim_active = "none"
    /\ sim_events = <<Initialize(0, "source", 0), Initialize(0, "scheduler", 0)>>
    /\ src_count = 0 /\ src_prev_task_ts = 0 /\ src_last_voice = {}
    /\ sch_pc = "init" /\ sch_task = 0 /\ sch_start = 0
    /\ tier2_used_time = 0 /\ tier1_batch = <<>>
    /\ users = [r \in ResourceSet |-> <<>>] /\ queue = [r \in ResourceSet |-> <<>>]
    /\ rl = <<>> /\ results = <<>> /\ metrics = NoMetrics

\* any event of the next instant is processed, whatever its priority and
\* scheduling order
step_any_of_instant(kind) ==
    /\ mode = "sim" /\ sim_pc = "run" /\ sim_active = "none"
    /\ NextEvent.time < SIM_END
    /\ \E k \in 1..Len(sim_events) :
          sim_events[k].time = NextEvent.time /\ sim_events[k].kind = kind
    /\ now' = NextEvent.time

\* env.step(): the next event, before SIM_END, resumes the process waiting for it
Step(kind) ==
    /\ mode = "sim" /\ sim_pc = "run" /\ sim_active = "none"
    /\ NextEvent.time < SIM_END /\ NextEvent.kind = kind
    /\ now' = NextEvent.time

\* the scheduler process is running, between two of its yields
Running(at) == mode = "sim" /\ sim_pc = "run" /\ sim_active = "scheduler" /\ sch_pc = at

\* lines 36-49: one iteration of task_source's loop
SimSourceEmit ==
    /\ Step("source") /\ src_count < MaxEvents
    /\ \E et \in SimEvents(StreamTs(src_count)) :
          LET e == et[1]
              ttype == et[2]
              lv == IF ttype = "voice_recognition" THEN e.voice ELSE src_last_voice
              enriched == enrich_task(e, ttype, src_prev_task_ts, lv)
              task == [enriched EXCEPT !.assigned_tier = decide_tier(enriched)]
              store == Append(tasks, task)
              pushed == heappush(store, task_queue, Len(store))
          IN /\ tasks' = store
             /\ task_queue' = pushed.h
             /\ src_last_voice' = lv
             /\ src_prev_task_ts' = e.ts
             /\ IF pushed.raised
                THEN sim_pc' = "crashed" /\ sim_events' = Pending
                ELSE /\ sim_pc' = sim_pc
                     /\ sim_events' = Append(Pending, Timeout(now', INTER_ARRIVAL, "source", 0))
    /\ src_count' = src_count + 1
    /\ UNCHANGED <<mode, varsLoop, varsT2, varsT1, varsStreamRest, sim_active, sch_pc, sch_task,
                   sch_start, tier2_used_time, tier1_batch, users, queue, rl, results,
                   metrics>>

\* line 36: the list of events is exhausted
SimSourceEnd ==
    /\ Step("source")
    /\ sim_events' = Pending
    /\ UNCHANGED <<mode, varsLoop, tasks, varsT2, varsT1, task_queue, varsStreamRest, sim_pc,
                   sim_active, src_count, src_prev_task_ts, src_last_voice, sch_pc,
                   sch_task, sch_start, tier2_used_time, tier1_batch, users, queue, rl,
                   results, metrics>>

\* lines 63-69 and 159: the scheduler starts, or wakes from its idle timeout
SimSchedWake ==
    /\ Step("scheduler") /\ sch_pc \in {"init", "idle"}
    /\ sim_events' = Pending
    /\ sim_active' = "scheduler" /\ sch_pc' = "top"
    /\ UNCHANGED <<mode, varsLoop, tasks, varsT2, varsT1, task_queue, varsStreamRest, sim_pc,
                   src_count, src_prev_task_ts, src_last_voice, sch_task, sch_start,
                   tier2_used_time, tier1_batch, users, queue, rl, results, metrics>>

\* lines 70-73
SimSchedPop ==
    /\ Running("top") /\ task_queue # <<>>
    /\ LET r == heappop(tasks, task_queue)
       IN /\ task_queue' = r.h
          /\ sch_task' = r.item
          /\ IF r.raised THEN sim_pc' = "crashed" /\ sch_pc' = sch_pc
             ELSE sim_pc' = sim_pc /\ sch_pc' = "popped"
    /\ sch_start' = now
    /\ UNCHANGED <<mode, varsLoop, tasks, varsT2, varsT1, varsStreamRest, now, sim_events,
                   sim_active, src_count, src_prev_task_ts, src_last_voice,
                   tier2_used_time, tier1_batch, users, queue, rl, results, metrics>>

\* lines 76-110
SimSchedTier1 ==
    /\ Running("popped") /\ tasks[sch_task].assigned_tier = "Tier-1"
    /\ LET batch == Append(tier1_batch, <<sch_task, sch_start>>)
           procs == schedule_batch(tasks, batch)
       IN IF Len(batch) >= BATCH_SIZE
          THEN /\ rl' = rl \o procs
               /\ sim_events' = start_processes(sim_events, procs, now)
               /\ tier1_batch' = <<>>
          ELSE /\ tier1_batch' = batch
               /\ UNCHANGED <<rl, sim_events>>
    /\ sch_pc' = "top"
    /\ UNCHANGED <<mode, varsLoop, tasks, varsT2, varsT1, task_queue, varsStreamRest, sim_pc, now,
                   sim_active, src_count, src_prev_task_ts, src_last_voice, sch_task,
                   sch_start, tier2_used_time, users, queue, results, metrics>>

\* the popped task is executed remotely whatever the budget
sim_sched_tier2_admit_unbounded ==
    /\ Running("popped") /\ tasks[sch_task].assigned_tier # "Tier-1"
    /\ sim_events' = Append(sim_events,
                            Timeout(now, tasks[sch_task].offload_time, "scheduler", 0))
    /\ sch_pc' = "exec2" /\ sim_active' = "none"
    /\ UNCHANGED <<mode, varsLoop, tasks, varsT2, varsT1, task_queue, varsStreamRest, sim_pc, now,
                   src_count, src_prev_task_ts, src_last_voice, sch_task, sch_start,
                   tier2_used_time, tier1_batch, users, queue, rl, results, metrics>>

\* lines 112-118: the task fits the budget; wait for its offload time
SimSchedTier2Admit ==
    /\ Running("popped") /\ tasks[sch_task].assigned_tier # "Tier-1"
    /\ tier2_used_time + tasks[sch_task].offload_time <= MAX_TIER2_TIME
    /\ sim_events' = Append(sim_events,
                            Timeout(now, tasks[sch_task].offload_time, "scheduler", 0))
    /\ sch_pc' = "exec2" /\ sim_active' = "none"
    /\ UNCHANGED <<mode, varsLoop, tasks, varsT2, varsT1, task_queue, varsStreamRest, sim_pc, now,
                   src_count, src_prev_task_ts, src_last_voice, sch_task, sch_start,
                   tier2_used_time, tier1_batch, users, queue, rl, results, metrics>>

\* lines 119-122: the offload time has passed
SimTier2Done ==
    /\ Step("scheduler") /\ sch_pc = "exec2"
    /\ sim_events' = Pending
    /\ tier2_used_time' = tier2_used_time + tasks[sch_task].offload_time
    /\ results' = Append(results, [finish_time |-> now', label |-> "Tier-2", task |-> sch_task])
    /\ metrics' = update_metrics(tasks[sch_task], sch_start, now', "Tier-2", metrics)
    /\ sim_active' = "scheduler" /\ sch_pc' = "top"
    /\ UNCHANGED <<mode, varsLoop, tasks, varsT2, varsT1, task_queue, varsStreamRest, sim_pc,
                   src_count, src_prev_task_ts, src_last_voice, sch_task, sch_start,
                   tier1_batch, users, queue, rl>>

\* lines 123-127
SimSchedFallback ==
    /\ Running("popped") /\ tasks[sch_task].assigned_tier # "Tier-1"
    /\ tier2_used_time + tasks[sch_task].offload_time > MAX_TIER2_TIME
    /\ tasks' = [tasks EXCEPT ![sch_task].assigned_tier = "Tier-1"]
    /\ tier1_batch' = Append(tier1_batch, <<sch_task, sch_start>>)
    /\ sch_pc' = "top"
    /\ UNCHANGED <<mode, varsLoop, varsT2, varsT1, task_queue, varsStreamRest, sim_pc, now,
                   sim_events, sim_active, src_count, src_prev_task_ts, src_last_voice,
                   sch_task, sch_start, tier2_used_time, users, queue, rl, results,
                   metrics>>

\* lines 131-134: the queue is empty and a batch is pending; wait 1 ms
SimSchedResidualWait ==
    /\ Running("top") /\ task_queue = <<>> /\ tier1_batch # <<>>
    /\ sim_events' = Append(sim_events, Timeout(now, POLL, "scheduler", 0))
    /\ sch_pc' = "flush_wait" /\ sim_active' = "none"
    /\ UNCHANGED <<mode, varsLoop, tasks, varsT2, varsT1, task_queue, varsStreamRest, sim_pc, now,
                   src_count, src_prev_task_ts, src_last_voice, sch_task, sch_start,
                   tier2_used_time, tier1_batch, users, queue, rl, results, metrics>>

\* lines 135-156: after the wait, schedule the small batch
SimResidualFlush ==
    /\ Step("scheduler") /\ sch_pc = "flush_wait"
    /\ LET procs == schedule_batch(tasks, tier1_batch)
       IN IF Len(tier1_batch) > 0
          THEN /\ rl' = rl \o procs
               /\ sim_events' = start_processes(Pending, procs, now')
               /\ tier1_batch' = <<>>
          ELSE /\ sim_events' = Pending
               /\ UNCHANGED <<rl, tier1_batch>>
    /\ sim_active' = "scheduler" /\ sch_pc' = "top"
    /\ UNCHANGED <<mode, varsLoop, tasks, varsT2, varsT1, task_queue, varsStreamRest, sim_pc,
                   src_count, src_prev_task_ts, src_last_voice, sch_task, sch_start,
                   tier2_used_time, users, queue, results, metrics>>

\* lines 157-159: truly idle
SimSchedIdle ==
    /\ Running("top") /\ task_queue = <<>> /\ tier1_batch = <<>>
    /\ sim_events' = Append(sim_events, Timeout(now, POLL, "scheduler", 0))
    /\ sch_pc' = "idle" /\ sim_active' = "none"
    /\ UNCHANGED <<mode, varsLoop, tasks, varsT2, varsT1, task_queue, varsStreamRest, sim_pc, now,
                   src_count, src_prev_task_ts, src_last_voice, sch_task, sch_start,
                   tier2_used_time, tier1_batch, users, queue, rl, results, metrics>>

\* lines 53-54: resources[resource_name].request(), then yield req
SimLocalRequest ==
    /\ Step("rl_init")
    /\ LET p == NextEvent.id
           r == rl[p].res
           g == trigger_put(users, [queue EXCEPT ![r] = Append(@, p)], Pending, r, now')
       IN /\ users' = g.users /\ queue' = g.queue /\ sim_events' = g.events
          /\ rl' = [rl EXCEPT ![p].state = "requested"]
    /\ UNCHANGED <<mode, varsLoop, tasks, varsT2, varsT1, task_queue, varsStreamRest, sim_pc,
                   sim_active, src_count, src_prev_task_ts, src_last_voice, sch_pc,
                   sch_task, sch_start, tier2_used_time, tier1_batch, results, metrics>>

\* lines 55-57: the request is granted; yield env.timeout(exec_time)
SimLocalStart ==
    /\ Step("rl_granted")
    /\ LET p == NextEvent.id
       IN /\ rl' = [rl EXCEPT ![p].state = "executing", ![p].actual_start = now']
          /\ sim_events' = Append(Pending, Timeout(now', rl[p].exec_time, "rl_finish", p))
    /\ UNCHANGED <<mode, varsLoop, tasks, varsT2, varsT1, task_queue, varsStreamRest, sim_pc,
                   sim_active, src_count, src_prev_task_ts, src_last_voice, sch_pc,
                   sch_task, sch_start, tier2_used_time, tier1_batch, users, queue,
                   results, metrics>>

\* lines 58-60 and the end of the with block: record the finish, release
SimLocalFinish ==
    /\ Step("rl_finish")
    /\ LET p == NextEvent.id
           r == rl[p].res
       IN /\ results' = Append(results, [finish_time |-> now', label |-> LocalLabel(r),
                                         task |-> rl[p].task])
          /\ metrics' = update_metrics(tasks[rl[p].task], rl[p].start_time, now',
                                       "Tier-1", metrics)
          /\ users' = [users EXCEPT ![r] = SelectSeq(@, LAMBDA u : u # p)]
          /\ sim_events' = Append(Pending, Succeed(now', "release", p))
          /\ rl' = [rl EXCEPT ![p].state = "done"]
    /\ UNCHANGED <<mode, varsLoop, tasks, varsT2, varsT1, task_queue, varsStreamRest, sim_pc,
                   sim_active, src_count, src_prev_task_ts, src_last_voice, sch_pc,
                   sch_task, sch_start, tier2_used_time, tier1_batch, queue>>

\* the release event is processed: Resource._trigger_put
SimRelease ==
    /\ Step("release")
    /\ LET r == rl[NextEvent.id].res
           g == trigger_put(users, queue, Pending, r, now')
       IN users' = g.users /\ queue' = g.queue /\ sim_events' = g.events
    /\ UNCHANGED <<mode, varsLoop, tasks, varsT2, varsT1, task_queue, varsStreamRest, sim_pc,
                   sim_active, src_count, src_prev_task_ts, src_last_voice, sch_pc,
                   sch_task, sch_start, tier2_used_time, tier1_batch, rl, results, metrics>>

\* line 203: env.run(until=SIM_END) returns
SimEnd ==
    /\ mode = "sim" /\ sim_pc = "run" /\ sim_active = "none"
    /\ NextEvent.time >= SIM_END
    /\ now' = SIM_END
    /\ sim_pc' = "ended"
    /\ UNCHANGED <<mode, varsLoop, tasks, varsT2, varsT1, task_queue, varsStreamRest, sim_events,
                   sim_active, src_count, src_prev_task_ts, src_last_voice, sch_pc,
                   sch_task, sch_start, tier2_used_time, tier1_batch, users, queue, rl,
                   results, metrics>>
NextSim ==
    \/ SimSourceEmit \/ SimSourceEnd
    \/ SimSchedWake \/ SimSchedPop \/ SimSchedTier1
    \/ SimSchedTier2Admit \/ SimTier2Done \/ SimSchedFallback
    \/ SimSchedResidualWait \/ SimResidualFlush \/ SimSchedIdle
    \/ SimLocalRequest \/ SimLocalStart \/ SimLocalFinish \/ SimRelease
    \/ SimEnd

SpecSim == InitSim /\ [][NextSim]_vars

----------------------------------------------------------------------------
(* Specification SpecDecide: tier2.decide_tier on one task of any class,
   deadline and costs; SpecTiers joins it with the two modes in which the
   decision is acted upon. *)

DecideDeadlines == {50, 600, 2000}
DecideOffloadTimes == {35, 530, 600, 1030}
DecideEnergies == {50, 80, 90, 4050}

DecideTask(c, d, ot, oe, le) ==
    [task |-> "slam", timestamp |-> 0, deadline_ms |-> d, QoE_class |-> c,
     local_time |-> 20, local_energy |-> le, offload_time |-> ot, offload_energy |-> oe,
     assigned_tier |-> None, deps |-> {}]

InitDecide ==
    /\ mode = "decide"
    /\ \E c \in QoEClasses, d \in DecideDeadlines, ot \in DecideOffloadTimes,
          oe \in DecideEnergies, le \in DecideEnergies :
            tasks = <<DecideTask(c, d, ot, oe, le)>>
    /\ T2Idle /\ T1Idle /\ StreamIdle /\ SimIdle /\ LoopIdle

\* task["assigned_tier"] = tier2.decide_tier(task)
Decide ==
    /\ mode = "decide" /\ tasks[1].assigned_tier = None
    /\ tasks' = [tasks EXCEPT ![1].assigned_tier = decide_tier(tasks[1])]
    /\ UNCHANGED <<mode, varsLoop, varsT2, varsT1, varsStream, varsSim>>

NextDecide == Decide

SpecDecide == InitDecide /\ [][NextDecide]_vars

InitTiers == InitDecide \/ InitStream \/ InitSim
NextTiers == NextDecide \/ NextStream \/ NextSim
SpecTiers == InitTiers /\ [][NextTiers]_vars

----------------------------------------------------------------------------
(* Claims checked under SpecT2 *)

OffloadOf == [i \in 1..Len(tasks) |-> tasks[i].offload_time]

T2Example ==
    /\ Len(tasks) = 3
    /\ \A i \in 1..3 : tasks[i].offload_time = 400 /\ t2_entry[i] = "Tier-2"
    /\ t2_max = 1000

\* C2: the offload times of the admitted tasks never add up to more than the
\* budget, after every iteration of the admission loop (used_time is that sum
\* and stays <= max_time); three tasks of offload_time 40 ms under a budget of
\* 100 ms end with the first two executed and the third in fallback.
C2_BudgetNeverExceeded ==
    mode = "tier2" =>
        /\ used_time <= t2_max
        /\ SumOver(executed, OffloadOf) = used_time
        /\ SumOver(executed, OffloadOf) <= t2_max
        /\ (t2_pc = "done" /\ T2Example) => (executed = <<1, 2>> /\ fallback = <<3>>)

C2_Witness ==
    /\ mode = "tier2" /\ t2_pc = "done" /\ T2Example
    /\ executed = <<1, 2>> /\ fallback = <<3>> /\ used_time = 800

\* C3 as stated: on return every input task that is not in executed is in
\* fallback with assigned_tier Tier-1, and executed and fallback are disjoint
\* and together cover the whole input.
C3_Original ==
    (mode = "tier2" /\ t2_pc = "done") =>
        /\ \A i \in 1..Len(tasks) :
              i \notin Range(executed) =>
                 (i \in Range(fallback) /\ tasks[i].assigned_tier = "Tier-1")
        /\ Range(executed) \cap Range(fallback) = {}
        /\ Range(executed) \cup Range(fallback) = 1..Len(tasks)

\* C3 amended: on return executed and fallback are disjoint, hold no task
\* twice, and together cover exactly the input tasks whose assigned_tier was
\* Tier-2 on entry (a task that entered as Tier-1 is in neither list); every
\* input task that is not in executed has assigned_tier Tier-1, and every
\* executed task is still Tier-2.
C3_Tier2TasksPartitioned ==
    (mode = "tier2" /\ t2_pc = "done") =>
        /\ Range(executed) \cap Range(fallback) = {}
        /\ Range(executed) \cup Range(fallback)
              = {i \in 1..Len(tasks) : t2_entry[i] = "Tier-2"}
        /\ Cardinality(Range(executed)) = Len(executed)
        /\ Cardinality(Range(fallback)) = Len(fallback)
        /\ \A i \in 1..Len(tasks) :
              /\ i \notin Range(executed) => tasks[i].assigned_tier = "Tier-1"
              /\ i \in Range(executed) => tasks[i].assigned_tier = "Tier-2"

C3_Witness ==
    /\ mode = "tier2" /\ t2_pc = "done"
    /\ executed # <<>> /\ fallback # <<>>
    /\ \E i \in 1..Len(tasks) : t2_entry[i] = "Tier-1"

----------------------------------------------------------------------------
(* Claims checked under SpecT1 *)

AllocatedResource(i) == allocations[tid(tasks[i])][1]
CompletionTime(i) == allocations[tid(tasks[i])][2]
\* the start time chosen for task i: its completion time minus its EET on the
\* chosen resource
StartTime(i) == CompletionTime(i) - build_eet(tasks[i])[AllocatedResource(i)]

\* C4: when dif_heft_schedule returns, every task that depends on a task of
\* the same batch starts no earlier than that task finishes.
C4_StartsAfterDependencies ==
    (mode = "tier1" /\ t1_alg = "heft" /\ t1_pc = "done") =>
        \A i \in 1..Len(tasks) :
            \A d \in tasks[i].deps :
                d \in DOMAIN allocations => StartTime(i) >= allocations[d][2]

\* C5: neither algorithm raises, and on return every task of the batch has
\* exactly one allocation, on CPU, GPU or DSP.
C5_EveryTaskAllocated ==
    mode = "tier1" =>
        /\ t1_pc # "raised"
        /\ t1_pc = "done" =>
              /\ DOMAIN allocations = {tid(tasks[i]) : i \in 1..Len(tasks)}
              /\ \A i \in 1..Len(tasks) : AllocatedResource(i) \in ResourceSet

\* C6: over successive runs of one algorithm no resource's committed time
\* (Dif-Min ET_table, Dif-HEFT ready_time) ever decreases, the start of a new
\* batch included.
C6_CommittedTimeNeverDecreases ==
    [][(mode = "tier1" /\ t1_alg' = t1_alg) =>
          \A r \in ResourceSet :
              /\ t1_alg = "min" => ET_table'[r] >= ET_table[r]
              /\ t1_alg = "heft" => ready_time'[r] >= ready_time[r]]_vars

----------------------------------------------------------------------------
(* Claims checked under SpecQueue *)

Key(i) == <<tasks[i].deadline_ms, tasks[i].timestamp>>
KeyLeq(i, j) == Key(i)[1] < Key(j)[1] \/ (Key(i)[1] = Key(j)[1] /\ Key(i)[2] <= Key(j)[2])

\* C9: whatever was pushed, and however pushes and pops interleave, a pop
\* returns a task whose (deadline_ms, timestamp) is minimal among the queued
\* tasks, and neither the pop nor a push fails on tasks whose keys tie.
C9_PopsInOrderAndNeverFail ==
    mode = "queue" =>
        /\ \A th \in Threads : pc[th] # "crashed"
        /\ \A i \in Range(task_queue) : KeyLeq(task_queue[1], i)

\* the part of C9 the heap does keep: the head of the heap is minimal, so a pop
\* that returns does return a minimal task
QueueHeadMinimal ==
    (QueueAlive /\ task_queue # <<>>) =>
        \A i \in Range(task_queue) : KeyLeq(task_queue[1], i)

----------------------------------------------------------------------------
(* Claims checked under SpecStream *)

\* the program has ended normally: main returned from its last flush
StreamEnded == mode = "stream" /\ pc["main"] = "exited"

\* C7: every task that Tier-2 admission rejected is in TIER1_BUFFER relabelled
\* Tier-1 once flush_tier2's loop is done with it, and has been handed to the
\* Tier-1 algorithm by the time the program ends.
C7_FallbackReachesTier1 ==
    mode = "stream" =>
        /\ \A i \in h_fellback : tasks[i].assigned_tier = "Tier-1"
        /\ (StreamEnded /\ pc["sched"] # "crashed") =>
               \A i \in h_fellback : Count(h_batches1, i) >= 1

\* C8: every task appended to a tier buffer is part of exactly one batch
\* handed to that tier's algorithm: never of two, and of one as soon as it has
\* left the buffer.
C8_ExactlyOneBatch ==
    mode = "stream" =>
        /\ \A i \in h_in1 :
              /\ Count(h_batches1, i) <= 1
              /\ i \notin Range(TIER1_BUFFER) => Count(h_batches1, i) = 1
        /\ \A i \in h_in2 :
              /\ Count(h_batches2, i) <= 1
              /\ i \notin Range(TIER2_BUFFER) => Count(h_batches2, i) = 1

----------------------------------------------------------------------------
(* Claims checked under SpecSim *)

Holders(r) == Range(users[r])

\* C10: a resource is held by at most one task; a task that executes holds the
\* resource it was allocated, from before its actual start until its finish is
\* recorded exec_time later, and holds nothing afterwards.
C10_ResourceHeldByOneTask ==
    mode = "sim" =>
        /\ \A r \in ResourceSet :
              /\ Len(users[r]) <= 1
              /\ \A p \in Holders(r) :
                    rl[p].res = r /\ rl[p].state \in {"requested", "executing"}
        /\ \A p \in 1..Len(rl) :
              /\ rl[p].state = "executing" =>
                    /\ p \in Holders(rl[p].res)
                    /\ now <= rl[p].actual_start + rl[p].exec_time
              /\ rl[p].state = "done" =>
                    /\ \A r \in ResourceSet : p \notin Holders(r)
                    /\ \E k \in 1..Len(results) :
                          /\ results[k].task = rl[p].task
                          /\ results[k].label = LocalLabel(rl[p].res)
                          /\ results[k].finish_time = rl[p].actual_start + rl[p].exec_time

\* two tasks were allocated the same resource: one executes, the other waits
C10_Witness ==
    /\ mode = "sim"
    /\ \E r \in ResourceSet :
          /\ users[r] # <<>> /\ queue[r] # <<>>
          /\ rl[Head(users[r])].state = "executing"

----------------------------------------------------------------------------
(* Claims checked under SpecTiers *)

Pinned(i) == tasks[i].QoE_class \in PinnedClasses

\* C1: a task of class Safety, Time or Robustness is decided Tier-1 whatever
\* its deadline and costs; in streaming mode it never enters TIER2_BUFFER, and
\* in the simulation it is never executed remotely nor recorded under label
\* Tier-2.
C1_PinnedClassesStayTier1 ==
    /\ \A i \in 1..Len(tasks) :
          Pinned(i) =>
             /\ tasks[i].assigned_tier \in {None, "Tier-1"}
             /\ i \notin h_in2 /\ i \notin Range(TIER2_BUFFER)
    /\ (mode = "sim" /\ sch_pc = "exec2") => ~Pinned(sch_task)
    /\ \A k \in 1..Len(results) : results[k].label = "Tier-2" => ~Pinned(results[k].task)

\* a pinned task that the cost test alone would have offloaded has been
\* decided; another has gone through the streaming scheduler into
\* TIER1_BUFFER, another through the simulation to a finish record
C1_WitnessDecided ==
    /\ mode = "decide" /\ Pinned(1) /\ tasks[1].assigned_tier = "Tier-1"
    /\ decide_tier_unpinned(tasks[1]) = "Tier-2"
C1_WitnessStream ==
    /\ mode = "stream"
    /\ \E i \in h_in1 : Pinned(i) /\ decide_tier_unpinned(tasks[i]) = "Tier-2"
    /\ \E i \in h_in2 : ~Pinned(i)
C1_WitnessSim ==
    /\ mode = "sim"
    /\ \E k \in 1..Len(results) : Pinned(results[k].task)
    /\ \E k \in 1..Len(results) : results[k].label = "Tier-2"

----------------------------------------------------------------------------
(* Claims checked under SpecSim: order of acquisition *)

\* the requests on resource r in the order they were made: the holder, then
\* the waiting ones
Line(r) == users[r] \o queue[r]

\* C11: on each resource the requests are served in the order they were made
\* (a request joins the end of the line and only the head of the line holds
\* the resource), and the holder leaves the line only by finishing: exec_time
\* after its actual start, with its completion record appended.
C11_ServedInRequestOrderToCompletion ==
    [][mode = "sim" =>
        \A r \in ResourceSet :
           \/ Line(r)' = Line(r)
           \/ \E p \in 1..Len(rl) : Line(r)' = Append(Line(r), p)
           \/ /\ users[r] # <<>>
              /\ Line(r)' = Tail(Line(r))
              /\ users'[r] = <<>>
              /\ LET p == Head(users[r])
                 IN /\ rl[p].state = "executing" /\ rl'[p].state = "done"
                    /\ now' = rl[p].actual_start + rl[p].exec_time
                    /\ results' = Append(results, [finish_time |-> now',
                                                   label |-> LocalLabel(r),
                                                   task |-> rl[p].task])]_vars

\* a task executes past its own deadline while two tasks wait for its
\* resource, one of them with an earlier deadline
C11_Witness ==
    /\ mode = "sim"
    /\ \E r \in ResourceSet :
          /\ users[r] # <<>> /\ queue[r] # <<>>
          /\ LET p == Head(users[r])
             IN /\ rl[p].state = "executing"
                /\ now - rl[p].start_time > tasks[rl[p].task].deadline_ms
                /\ \E q \in Range(queue[r]) :
                      tasks[rl[q].task].deadline_ms < tasks[rl[p].task].deadline_ms

(* Claims checked under SpecSim: completion of every admitted task *)

\* the tasks that have a completion record
Completed == {results[k].task : k \in 1..Len(results)}

\* C12: when run_simulation has ended, every task that the task source pushed
\* into the EDF queue has been popped, executed to completion and recorded:
\* results holds a completion record for each of them.
C12_EveryAdmittedTaskCompletes ==
    mode = "sim" /\ sim_pc = "ended" => \A i \in 1..Len(tasks) : i \in Completed

(* Claims checked under SpecSim: no task is executed or counted twice *)

\* the tasks the scheduler has popped from the EDF queue
Popped == {i \in 1..Len(tasks) : i \notin Range(task_queue)}
\* the tasks that were decided Tier-2 at ingestion and fell back
FellBack == {i \in 1..Len(tasks) : decide_tier(tasks[i]) # "Tier-1"
                                   /\ tasks[i].assigned_tier = "Tier-1"}

\* C13: a task is started on at most one resource, and not at all if it ran on
\* Tier-2; it has at most one completion record; total_tasks counts the records
\* and never exceeds the number of popped tasks; the records of a task that
\* fell back carry a Tier-1 label.
C13_ExecutedAndCountedAtMostOnce ==
    mode = "sim" =>
        /\ \A p, q \in 1..Len(rl) : rl[p].task = rl[q].task => p = q
        /\ \A j, k \in 1..Len(results) : results[j].task = results[k].task => j = k
        /\ \A k \in 1..Len(results) :
              /\ results[k].task \in Popped
              /\ results[k].label = "Tier-2" => \A p \in 1..Len(rl) : rl[p].task # results[k].task
              /\ results[k].task \in FellBack => results[k].label # "Tier-2"
        /\ metrics.total_tasks = Len(results)
        /\ metrics.total_tasks <= Cardinality(Popped)
        /\ metrics.tiers["Tier-2"] = Cardinality({k \in 1..Len(results) : results[k].label = "Tier-2"})

C13_Witness ==
    /\ mode = "sim"
    /\ \E k \in 1..Len(results) : results[k].task \in FellBack
    /\ \E k \in 1..Len(results) : results[k].label = "Tier-2"
    /\ metrics.total_tasks >= 3

(* Claims checked under SpecTiers: what may change in a task *)

\* the fields enrichment fills in
Enriched(t) == <<t.QoE_class, t.deadline_ms, t.local_time, t.local_energy,
                 t.offload_time, t.offload_energy>>

\* task i is rejected by the Tier-2 budget in this step: by simPy.scheduler's
\* test on the task it popped, or by schedule_tier2 on main's TIER2_BUFFER
OverBudgetFallback(i) ==
    \/ /\ mode = "sim" /\ sch_pc = "popped" /\ i = sch_task
       /\ tier2_used_time + tasks[i].offload_time > MAX_TIER2_TIME
    \/ /\ mode = "stream" /\ i \in Range(TIER2_BUFFER)
       /\ i \in Range(schedule_tier2(tasks, TIER2_BUFFER, FLUSH_MAX_TIME).fallback)

\* C14: no step removes a task or changes its class, deadline or cost fields;
\* assigned_tier is set by the tier decision and afterwards changed only by the
\* over-budget fallback, from Tier-2 to Tier-1 (so at most once per task).
C14_OnlyFallbackRewritesTier ==
    [][\A i \in 1..Len(tasks) :
          /\ i <= Len(tasks')
          /\ Enriched(tasks'[i]) = Enriched(tasks[i])
          /\ tasks'[i].assigned_tier # tasks[i].assigned_tier =>
                \/ tasks[i].assigned_tier = None /\ tasks'[i].assigned_tier = decide_tier(tasks[i])
                \/ /\ tasks[i].assigned_tier = "Tier-2" /\ tasks'[i].assigned_tier = "Tier-1"
                   /\ OverBudgetFallback(i)]_vars

C14_Witness ==
    /\ mode = "stream"
    /\ \E i \in h_fellback : /\ tasks[i].assigned_tier = "Tier-1"
                             /\ decide_tier(tasks[i]) = "Tier-2"
                             /\ i \in Range(h_batches1)

(* Claims checked under SpecSim: size of the Tier-1 batch *)

\* C15: after every step of the scheduler (an iteration of its loop has ended
\* or it waits at a yield) the Tier-1 batch buffer holds fewer than BATCH_SIZE
\* tasks, also when the step appended a Tier-2 fallback task.
C15_BatchBelowBatchSize ==
    mode = "sim" /\ sch_pc \in {"top", "idle", "flush_wait", "exec2"} =>
        Len(tier1_batch) < BATCH_SIZE

(* main.py under a wall clock.  Each thread runs as soon as its sleep is
   over and an iteration of either loop takes no time, so the clock advances
   only while both are asleep. *)

FLUSH_INTERVAL == 1000    \* 0.1 s
IDLE_SLEEP == 100         \* time.sleep(0.01) of scheduler_loop
ARRIVAL_SLEEP == 500      \* time.sleep(0.05) of stream_inputs
MaxTicks == 14

\* lines 31-40, run without interruption.  s = [store, b1, b2, hb1, hb2]: the
\* tasks, the two buffers and the batches handed to each scheduler so far
flush_tier1(s) ==
    IF s.b1 = <<>> THEN s
    ELSE [s EXCEPT !.hb1 = @ \o s.b1, !.b1 = <<>>]

\* lines 43-56, run without interruption
flush_tier2(s) ==
    IF s.b2 = <<>> THEN s
    ELSE LET st == schedule_tier2(s.store, s.b2, FLUSH_MAX_TIME)
         IN [s EXCEPT !.store = st.store, !.b1 = @ \o st.fallback,
                      !.hb2 = @ \o s.b2, !.b2 = <<>>]

LoopState == [store |-> tasks, b1 |-> TIER1_BUFFER, b2 |-> TIER2_BUFFER,
              hb1 |-> h_batches1, hb2 |-> h_batches2]
LoopSet(s) ==
    /\ tasks' = s.store /\ TIER1_BUFFER' = s.b1 /\ TIER2_BUFFER' = s.b2
    /\ h_batches1' = s.hb1 /\ h_batches2' = s.hb2

varsLoopRest == <<slam_lines, voice_lines, pc, ret, sched_task, fl_fallback,
                  h_in1, h_in2, h_fellback>>

InitLoop ==
    /\ mode = "loop"
    /\ tasks = <<>>
    /\ T2Idle /\ T1Idle /\ StreamIdle /\ SimIdle /\ LoopIdle

\* lines 96-110: one iteration of stream_inputs' loop, a line of each file.
\* A SLAM and a voice task never tie on deadline and timestamp, so neither
\* heappush raises.
LoopStreamPair ==
    /\ mode = "loop" /\ clock >= next_arrival /\ slam_read < MaxLines
    /\ \E se \in StreamSlamEvents(StreamTs(slam_read)),
          ve \in StreamVoiceEvents(StreamTs(voice_read)) :
          LET es == enrich_task(se, "slam", 0, {})
              ts == [es EXCEPT !.assigned_tier = decide_tier(es)]
              ev == enrich_task(ve, "voice_recognition", 0, {})
              tv == [ev EXCEPT !.assigned_tier = decide_tier(ev)]
              store1 == Append(tasks, ts)
              pushed1 == heappush(store1, task_queue, Len(store1))
              store2 == Append(store1, tv)
              pushed2 == heappush(store2, pushed1.h, Len(store2))
          IN /\ tasks' = store2
             /\ task_queue' = pushed2.h
    /\ slam_read' = slam_read + 1 /\ voice_read' = voice_read + 1
    /\ next_arrival' = clock + ARRIVAL_SLEEP
    /\ UNCHANGED <<mode, varsT2, varsT1, varsSim, varsLoopRest, TIER1_BUFFER, TIER2_BUFFER,
                   h_batches1, h_batches2, clock, last_flush_time, sched_wake>>

\* lines 67-78: the queue is not empty; pop, route, flush on size
LoopSchedPop ==
    /\ mode = "loop" /\ clock >= sched_wake /\ task_queue # <<>>
    /\ LET r == heappop(tasks, task_queue)
           s == LoopState
       IN /\ task_queue' = r.h
          /\ IF tasks[r.item].assigned_tier = "Tier-1"
             THEN LET a == [s EXCEPT !.b1 = Append(@, r.item)]
                  IN LoopSet(IF Len(a.b1) >= BATCH_SIZE THEN flush_tier1(a) ELSE a)
             ELSE LET a == [s EXCEPT !.b2 = Append(@, r.item)]
                  IN LoopSet(IF Len(a.b2) >= BATCH_SIZE THEN flush_tier2(a) ELSE a)
    /\ UNCHANGED <<mode, varsT2, varsT1, varsSim, varsLoopRest, slam_read, voice_read,
                   varsLoop>>

\* lines 80-86: the queue is empty; flush if FLUSH_INTERVAL has elapsed, sleep
LoopSchedIdle ==
    /\ mode = "loop" /\ clock >= sched_wake /\ task_queue = <<>>
    /\ IF clock - last_flush_time >= FLUSH_INTERVAL
       THEN /\ LoopSet(flush_tier2(flush_tier1(LoopState)))
            /\ last_flush_time' = clock
       ELSE UNCHANGED <<tasks, TIER1_BUFFER, TIER2_BUFFER, h_batches1, h_batches2,
                        last_flush_time>>
    /\ sched_wake' = clock + IDLE_SLEEP
    /\ UNCHANGED <<mode, varsT2, varsT1, varsSim, varsLoopRest, task_queue, slam_read,
                   voice_read, clock, next_arrival>>

\* both threads are asleep (or stream_inputs has no line left): time passes
LoopTick ==
    /\ mode = "loop" /\ clock < MaxTicks * IDLE_SLEEP
    /\ clock < sched_wake
    /\ clock < next_arrival \/ slam_read >= MaxLines
    /\ clock' = clock + IDLE_SLEEP
    /\ UNCHANGED <<mode, tasks, varsT2, varsT1, varsSim, varsStream, last_flush_time,
                   next_arrival, sched_wake>>

NextLoop == LoopStreamPair \/ LoopSchedPop \/ LoopSchedIdle \/ LoopTick

SpecLoop == InitLoop /\ [][NextLoop]_vars

(* Claims checked under SpecLoop: the time-based flush *)

\* a step of scheduler_loop
SchedIteration == Len(task_queue') < Len(task_queue) \/ sched_wake' # sched_wake
Buffered == Range(TIER1_BUFFER) \cup Range(TIER2_BUFFER)

\* C16: a scheduler iteration that begins with a non-empty buffer when
\* FLUSH_INTERVAL has elapsed since the last flush hands the buffered tasks
\* to their tier schedulers, whether the EDF queue is empty or not: a
\* buffered task waits no longer than the interval plus one scheduler step.
C16_ElapsedIntervalFlushes ==
    [][mode = "loop" /\ SchedIteration /\ Buffered # {}
       /\ clock - last_flush_time >= FLUSH_INTERVAL
       => Buffered \subseteq Range(h_batches1') \cup Range(h_batches2')]_vars

(* Claims checked under SpecT1: the selection rule of Dif-Min *)

\* the task an iteration of Dif-Min removes from U
Selected == CHOOSE i \in Range(U) : i \notin Range(U')

\* C17: the task an iteration of Dif-Min selects has, among the unscheduled
\* tasks, the smallest Div = worst/best and, among those of that Div, the
\* largest Sub = worst - best; so no unscheduled task has a strictly smaller
\* Div than the one being allocated.
C17_DifMinSelectsSmallestDiv ==
    [][mode = "tier1" /\ t1_pc = "min" /\ t1_pc' = "min" /\ Len(U') < Len(U) =>
          /\ Len(U') = Len(U) - 1
          /\ DOMAIN allocations' = DOMAIN allocations \cup {tid(tasks[Selected])}
          /\ \A j \in Range(U) :
                /\ Worst(tasks[Selected]) * Best(tasks[j]) <= Worst(tasks[j]) * Best(tasks[Selected])
                /\ Worst(tasks[Selected]) * Best(tasks[j]) = Worst(tasks[j]) * Best(tasks[Selected])
                      => Worst(tasks[Selected]) - Best(tasks[Selected])
                           >= Worst(tasks[j]) - Best(tasks[j])]_vars

C17_Witness ==
    /\ mode = "tier1" /\ t1_alg = "min" /\ t1_pc = "min"
    /\ \E i \in 1..Len(tasks), j \in Range(U) :
          /\ tid(tasks[i]) \in DOMAIN allocations
          /\ j < i
          /\ Sub(tasks[i]) > Sub(tasks[j])

(* Claims checked under SpecSim: the metrics counters *)

TierOfLabel(l) == IF l = "Tier-2" THEN "Tier-2" ELSE "Tier-1"
\* the start time passed to update_metrics with the record of a task: the
\* time of its pop
StartOf(rec) ==
    IF rec.label = "Tier-2" THEN sch_start
    ELSE rl[CHOOSE p \in 1..Len(rl) : rl[p].task = rec.task].start_time
MetricsConsistent ==
    /\ metrics.total_tasks = metrics.deadline_met + metrics.deadline_miss
    /\ metrics.total_tasks = metrics.tiers["Tier-1"] + metrics.tiers["Tier-2"]
    /\ metrics.total_tasks = metrics.QoE["QoE-Safety"] + metrics.QoE["QoE-Time"]
                              + metrics.QoE["QoE-Robustness"] + metrics.QoE["QoE-Energy"]
                              + metrics.QoE["QoE-Insensitive"]

\* C18: each completion record adds one to total_tasks, to the count of its
\* tier and of its task's class, and to deadline_met if finish - start <=
\* deadline_ms, else to deadline_miss; nothing else changes a counter, so the
\* counters never decrease and always total_tasks = deadline_met +
\* deadline_miss = the sum over tiers = the sum over classes.
C18_MetricsCountEachRecordOnce ==
    /\ [](mode = "sim" => MetricsConsistent)
    /\ [][mode = "sim" =>
           IF Len(results') = Len(results) THEN metrics' = metrics
           ELSE LET rec == results'[Len(results')]
                    t == tasks[rec.task]
                    tier == TierOfLabel(rec.label)
                    met == rec.finish_time - StartOf(rec) <= t.deadline_ms
                IN /\ Len(results') = Len(results) + 1
                   /\ metrics'.total_tasks = metrics.total_tasks + 1
                   /\ metrics'.tiers = [metrics.tiers EXCEPT ![tier] = @ + 1]
                   /\ metrics'.QoE = [metrics.QoE EXCEPT ![t.QoE_class] = @ + 1]
                   /\ metrics'.deadline_met = metrics.deadline_met + (IF met THEN 1 ELSE 0)
                   /\ metrics'.deadline_miss = metrics.deadline_miss + (IF met THEN 0 ELSE 1)]_vars

C18_Witness ==
    /\ mode = "sim"
    /\ metrics.deadline_met >= 1 /\ metrics.deadline_miss >= 1
    /\ metrics.tiers["Tier-1"] >= 1 /\ metrics.tiers["Tier-2"] >= 1
    /\ Cardinality({c \in QoEClasses : metrics.QoE[c] >= 1}) >= 2

(* Specification SpecEnrich: enrich_task on one event, for each combination
   of its inputs *)

EnrichConfs == {0, 10, 30, 50, 90, 100}      \* max confidence, in percent
EnrichTs == {4, 10}                       \* ts 0.04 and 0.10
EnrichPrevTs == {0, 1, 6}                 \* None (or 0.0), 0.01, 0.06
EnrichLastVoice == {{}, {"obstacle"}, {"stop"}}
EnrichVoices == {{}, {"obstacle"}, {"stop"}, {"turn left"}, {"obstacle", "start"}}

InitEnrich ==
    /\ mode = "enrich"
    /\ tasks = <<>>
    /\ T2Idle /\ T1Idle /\ StreamIdle /\ LoopIdle
    /\ sim_pc = "off" /\ now = 0 /\ sim_events = <<>> /\ sim_active = "none"
    /\ src_count = 0
    /\ src_prev_task_ts \in EnrichPrevTs
    /\ src_last_voice \in EnrichLastVoice
    /\ sch_pc = "off" /\ sch_task = 0 /\ sch_start = 0
    /\ tier2_used_time = 0 /\ tier1_batch = <<>>
    /\ users = [r \in ResourceSet |-> <<>>] /\ queue = [r \in ResourceSet |-> <<>>]
    /\ rl = <<>> /\ results = <<>> /\ metrics = NoMetrics

\* simPy.py line 40: task = qoe.enrich_task(e, ttype, prev_task_ts, last_voice)
\* on a SLAM event
EnrichSlam ==
    /\ mode = "enrich" /\ tasks = <<>>
    /\ \E ts \in EnrichTs, obstacle \in BOOLEAN, near \in BOOLEAN, vo_ok \in BOOLEAN,
          conf \in EnrichConfs :
          tasks' = <<enrich_task(SlamEvent(ts, obstacle, near, vo_ok, conf, 100), "slam",
                                 src_prev_task_ts, src_last_voice)>>
    /\ UNCHANGED <<mode, varsT2, varsT1, varsStream, varsSim, varsLoop>>

\* the same call on a voice event
EnrichVoice ==
    /\ mode = "enrich" /\ tasks = <<>>
    /\ \E ts \in EnrichTs, voice \in EnrichVoices :
          tasks' = <<enrich_task(VoiceEvent(ts, voice, 100), "voice_recognition",
                                 src_prev_task_ts, src_last_voice)>>
    /\ UNCHANGED <<mode, varsT2, varsT1, varsStream, varsSim, varsLoop>>

NextEnrich == EnrichSlam \/ EnrichVoice

SpecEnrich == InitEnrich /\ [][NextEnrich]_vars

(* Claims checked under SpecEnrich *)

\* the severity score of the enriched SLAM event
Score == slam_score(tasks[1].data, src_prev_task_ts, src_last_voice)
MaxInt(a, b) == IF a >= b THEN a ELSE b

\* C19: enrich_task returns a positive deadline and the class and deadline of
\* the rule.  SLAM: deadline max(5, 10 - score) ms; Safety if score >= 60,
\* Time if 30 <= score < 60, below 30 Robustness if vo_ok is false, else
\* Insensitive if score <= 0, else Time.  Voice: 30 ms and Safety with
\* 'obstacle', else 60 ms and Time with a command keyword, else 200 ms and
\* Energy.  (deadline_ms is held in tenths of a millisecond.)
C19_EnrichFollowsRule ==
    mode = "enrich" /\ tasks # <<>> =>
        LET t == tasks[1]
            e == t.data
        IN /\ t.deadline_ms > 0
           /\ t.task = "slam" =>
                 /\ t.deadline_ms = 10 * MaxInt(5, 10 - Score)
                 /\ Score >= 60 => t.QoE_class = "QoE-Safety"
                 /\ Score >= 30 /\ Score < 60 => t.QoE_class = "QoE-Time"
                 /\ Score < 30 /\ ~e.vo_ok => t.QoE_class = "QoE-Robustness"
                 /\ Score <= 0 /\ e.vo_ok => t.QoE_class = "QoE-Insensitive"
                 /\ Score > 0 /\ Score < 30 /\ e.vo_ok => t.QoE_class = "QoE-Time"
           /\ t.task = "voice_recognition" =>
                 /\ "obstacle" \in e.voice =>
                       t.deadline_ms = 300 /\ t.QoE_class = "QoE-Safety"
                 /\ "obstacle" \notin e.voice /\ e.voice \cap CommandKeywords # {} =>
                       t.deadline_ms = 600 /\ t.QoE_class = "QoE-Time"
                 /\ e.voice \cap Keywords = {} =>
                       t.deadline_ms = 2000 /\ t.QoE_class = "QoE-Energy"

\* the example of a SLAM event with an obstacle and a near detection of
\* confidence 0.9: score 98, Safety, 5 ms
C19_Witness ==
    /\ mode = "enrich" /\ tasks # <<>>
    /\ tasks[1].task = "slam" /\ tasks[1].data.obstacle /\ tasks[1].data.near
    /\ tasks[1].data.vo_ok /\ tasks[1].data.conf = 90
    /\ Score = 98
    /\ tasks[1].QoE_class = "QoE-Safety" /\ tasks[1].deadline_ms = 50

(* Claims checked under SpecDecide *)

\* C20: a task of class Energy or Insensitive is decided Tier-2 exactly when
\* its offload time is at most its deadline and its offload energy is strictly
\* less than its local energy, and Tier-1 otherwise.
C20_CostTestDecidesUnpinned ==
    mode = "decide" /\ tasks[1].assigned_tier # None /\ ~Pinned(1) =>
        /\ tasks[1].assigned_tier \in {"Tier-1", "Tier-2"}
        /\ tasks[1].assigned_tier = "Tier-2" <=>
              /\ tasks[1].offload_time <= tasks[1].deadline_ms
              /\ tasks[1].offload_energy < tasks[1].local_energy

\* an Energy task with deadline 200 ms whose offload is feasible and cheaper
C20_Witness ==
    /\ mode = "decide" /\ tasks[1].QoE_class = "QoE-Energy"
    /\ tasks[1].deadline_ms = 2000
    /\ tasks[1].offload_time <= tasks[1].deadline_ms
    /\ tasks[1].offload_energy < tasks[1].local_energy
    /\ tasks[1].assigned_tier = "Tier-2"

----------------------------------------------------------------------------
(* C21 *)

\* what a run has read of its input: the lines emitted so far, each with the
\* file it comes from
InputRead == [i \in 1..Len(tasks) |-> <<tasks[i].task, tasks[i].data>>]

\* the whole state of a run: the environment, the three kinds of processes,
\* the heap, the resources, the completion records and the metrics
SimState == <<tasks, task_queue, varsSim>>

\* the steps of the program that can be taken in the current state, the
\* reading of the next input line (or of the end of the input) counting as one
ReadySteps ==
    {a \in {"source", "wake", "pop", "tier1", "admit", "tier2_done", "fallback",
            "residual_wait", "residual_flush", "idle", "request", "start",
            "finish", "release", "end"} :
        CASE a = "source" -> ENABLED SimSourceEmit \/ ENABLED SimSourceEnd
          [] a = "wake" -> ENABLED SimSchedWake
          [] a = "pop" -> ENABLED SimSchedPop
          [] a = "tier1" ->
                Running("popped") /\ tasks[sch_task].assigned_tier = "Tier-1"
          [] a = "admit" -> ENABLED SimSchedTier2Admit
          [] a = "tier2_done" -> ENABLED SimTier2Done
          [] a = "fallback" -> ENABLED SimSchedFallback
          [] a = "residual_wait" -> ENABLED SimSchedResidualWait
          [] a = "residual_flush" -> ENABLED Step("scheduler") /\ sch_pc = "flush_wait"
          [] a = "idle" -> ENABLED SimSchedIdle
          [] a = "request" -> ENABLED SimLocalRequest
          [] a = "start" -> ENABLED SimLocalStart
          [] a = "finish" -> ENABLED SimLocalFinish
          [] a = "release" -> ENABLED SimRelease
          [] a = "end" -> ENABLED SimEnd}

\* the steps that do not schedule a batch
NextSimLight ==
    \/ SimSourceEmit \/ SimSourceEnd
    \/ SimSchedWake \/ SimSchedPop
    \/ SimSchedTier2Admit \/ SimTier2Done \/ SimSchedFallback
    \/ SimSchedResidualWait \/ SimSchedIdle
    \/ SimLocalRequest \/ SimLocalStart \/ SimLocalFinish \/ SimRelease
    \/ SimEnd

----------------------------------------------------------------------------
(* C22 *)

\* a thread is at the entry of flush_tier1 and the buffer is empty
EmptyFlush1(th) == mode = "stream" /\ pc[th] = "f1_check" /\ TIER1_BUFFER = <<>>

\* everything of the streaming run but the position of the threads
StreamData == <<tasks, task_queue, TIER1_BUFFER, TIER2_BUFFER, fl_fallback,
                h_in1, h_in2, h_batches1, h_batches2, h_fellback>>

\* C22: the Tier-1 scheduling step on an empty buffer does nothing.  Both
\* algorithms return no allocations for an empty batch, whatever tasks exist;
\* a call of flush_tier1 that finds TIER1_BUFFER empty returns at once to its
\* call site without handing a batch to the algorithm, and leaves the buffers,
\* the EDF queue and every task as they were, so that any number of such calls
\* in a row has the effect of none.
C22_EmptyBatchIsNoOp ==
    /\ [](mode = "stream" =>
            /\ ~inter_core_schedule(tasks, <<>>).raised
            /\ inter_core_schedule(tasks, <<>>).alloc = NoAllocations
            /\ inter_core_schedule(tasks, <<>>).ET = ZeroTable
            /\ dif_heft_schedule(tasks, <<>>).alloc = NoAllocations
            /\ dif_heft_schedule(tasks, <<>>).ready = ZeroTable)
    /\ [][\A th \in Threads :
             EmptyFlush1(th) /\ pc'[th] # pc[th] =>
                /\ pc'[th] = After1(th)
                /\ UNCHANGED StreamData]_vars

\* both threads have returned from flush_tier1 (the scheduler from its idle
\* flush, main from its final one) and no task has ever been put in the
\* Tier-1 buffer, while tasks wait in the Tier-2 buffer
C22_Witness ==
    /\ mode = "stream"
    /\ pc["main"] = "f2_check" /\ pc["sched"] = "f2_check" /\ ret["sched"] = "idle"
    /\ h_in1 = {} /\ h_batches1 = <<>> /\ TIER1_BUFFER = <<>>
    /\ TIER2_BUFFER # <<>> /\ task_queue # <<>>

----------------------------------------------------------------------------
(* C23 *)

\* the largest finish time recorded so far for a dependency of task i (0 when
\* none is recorded)
DepFinish(i) ==
    LET rec == {finish_times[d] : d \in tasks[i].deps \cap DOMAIN finish_times}
    IN CHOOSE v \in rec \cup {0} : \A w \in rec \cup {0} : w <= v

\* the finish time of task i on resource r, from the ready times before the step
FinishOn(i, r) ==
    (IF ready_time[r] >= DepFinish(i) THEN ready_time[r] ELSE DepFinish(i))
    + build_eet(tasks[i])[r]

\* C23: each iteration of dif_heft_schedule takes a task whose average EET is
\* at least that of every task still to come, and gives it a resource on which
\* max(ready time, largest recorded finish of its dependencies) + EET is least
\* over the three resources; the completion time returned for the task is this
\* least value, the chosen resource's ready time becomes it, the ready times of
\* the other resources stay, and none decreases.
C23_DifHeftTakesEarliestFinish ==
    [][mode = "tier1" /\ t1_pc = "heft" /\ t1_pc' = "heft" /\ Len(U') < Len(U) =>
          LET i == Head(U)
              res == allocations'[tid(tasks[i])][1]
              ct == allocations'[tid(tasks[i])][2]
          IN /\ \A k \in 1..Len(U') : avg_cost(tasks[i]) >= avg_cost(tasks[U'[k]])
             /\ res \in ResourceSet
             /\ ct = FinishOn(i, res)
             /\ \A r \in ResourceSet : ct <= FinishOn(i, r)
             /\ finish_times'[tid(tasks[i])] = ct
             /\ ready_time'[res] = ct
             /\ \A r \in ResourceSet \ {res} : ready_time'[r] = ready_time[r]
             /\ \A r \in ResourceSet : ready_time'[r] >= ready_time[r]
             /\ \A x \in DOMAIN allocations \ {tid(tasks[i])} :
                   x \in DOMAIN allocations' /\ allocations'[x] = allocations[x]]_vars

\* a returned schedule in which a task starts when its dependency finishes on
\* another resource, later than its own resource was ready
C23_Witness ==
    /\ mode = "tier1" /\ t1_alg = "heft" /\ t1_pc = "done"
    /\ \E i, j \in 1..Len(tasks) :
          /\ tid(tasks[j]) \in tasks[i].deps
          /\ AllocatedResource(i) # AllocatedResource(j)
          /\ StartTime(i) = CompletionTime(j) /\ StartTime(i) > 0
          /\ \A k \in 1..Len(tasks) :
                AllocatedResource(k) = AllocatedResource(i) /\ k # i
                    => CompletionTime(k) < StartTime(i)
          /\ \E k \in 1..Len(tasks) : AllocatedResource(k) = AllocatedResource(i) /\ k # i

----------------------------------------------------------------------------
(* C24 *)

\* a sequence of input positions that keeps the input order
InInputOrder(s) == \A a, b \in 1..Len(s) : a < b => s[a] < s[b]

\* the offload time admitted before input position i
UsedBefore(i) == SumOver(SelectSeq(executed, LAMBDA j : j < i), OffloadOf)

\* the Tier-2 tasks the loop has decided so far
Decided == Range(executed) \cup Range(fallback)

IsPrefix(s, t) == Len(s) <= Len(t) /\ SubSeq(t, 1, Len(s)) = s

\* C24: schedule_tier2 takes its batch in arrival order.  At every point of
\* the loop executed and fallback list input tasks in input order, the tasks
\* decided are those before the first undecided one, and a decided task is in
\* executed exactly when the offload times of the tasks admitted before it
\* plus its own are within the budget; a step only appends to one of the two
\* lists, so no decision is revised by a task that comes later.
C24_AdmissionInArrivalOrder ==
    /\ [](mode = "tier2" /\ t2_pc \in {"loop", "done"} =>
            /\ InInputOrder(executed) /\ InInputOrder(fallback)
            /\ InInputOrder(t2_rest)
            /\ \A i \in Decided : \A k \in 1..Len(t2_rest) : i < t2_rest[k]
            /\ \A i \in Decided :
                  i \in Range(executed)
                      <=> UsedBefore(i) + tasks[i].offload_time <= t2_max)
    /\ [][mode = "tier2" /\ t2_pc = "loop" =>
             /\ IsPrefix(executed, executed') /\ IsPrefix(fallback, fallback')
             /\ Len(executed') + Len(fallback') <= Len(executed) + Len(fallback) + 1]_vars

\* a task was rejected and a later, shorter one admitted; the rejected one
\* would have fitted had an earlier admitted task not come before it
C24_Witness ==
    /\ mode = "tier2" /\ t2_pc = "done"
    /\ \E a, b, c \in 1..Len(tasks) :
          /\ a < b /\ b < c
          /\ a \in Range(executed) /\ b \in Range(fallback) /\ c \in Range(executed)
          /\ tasks[b].offload_time <= t2_max
          /\ tasks[c].offload_time > 0

----------------------------------------------------------------------------
(* C25 *)

\* a task was added before task i and the gap between the two timestamps is
\* below the threshold
TemporalBonusDue(i) ==
    i > 1 /\ tasks[i].timestamp - tasks[i - 1].timestamp < TemporalGap

\* the severity score of SLAM task i with the temporal bonus as stated (no
\* utterance of the runs checked mentions an obstacle)
StatedScore(i) ==
    slam_score(tasks[i].data, 0, {}) + (IF TemporalBonusDue(i) THEN 10 ELSE 0)

\* C25: in streaming mode every SLAM task added through add_task has the
\* deadline and the class of a score that includes the +10 temporal bonus
\* exactly when a task was added before it less than 50 ms earlier, whatever
\* the previous timestamp is (0 included).
C25_TemporalBonusWhenDue ==
    mode = "queue" =>
        \A i \in 1..Len(tasks) :
            tasks[i].task = "slam" =>
                /\ tasks[i].deadline_ms = 10 * MaxInt(5, 10 - StatedScore(i))
                /\ tasks[i].QoE_class = slam_class(tasks[i].data, StatedScore(i))

----------------------------------------------------------------------------
(* C26 *)

\* the tasks recorded as completed under Tier-2, in the order of the records
Tier2Done ==
    LET recs == SelectSeq(results, LAMBDA rec : rec.label = "Tier-2")
    IN [k \in 1..Len(recs) |-> recs[k].task]

\* the scheduler has just popped a task whose assigned_tier is Tier-2
PoppedTier2 == Running("popped") /\ tasks[sch_task].assigned_tier = "Tier-2"

\* C26: in simulation mode the Tier-2 budget is a cumulative gate over the
\* whole run.  tier2_used_time is always the sum of the offload times of the
\* tasks recorded as completed under Tier-2, is never above MAX_TIER2_TIME and
\* never decreases.  A task popped with assigned_tier Tier-2 starts its remote
\* execution (the scheduler waits offload_time from the time of the pop) if
\* tier2_used_time + offload_time <= MAX_TIER2_TIME at that moment, and else
\* is appended to the Tier-1 batch; only a task so admitted gets a Tier-2
\* record.
C26_BudgetIsCumulativeGate ==
    /\ [](mode = "sim" =>
            /\ tier2_used_time = SumOver(Tier2Done, OffloadOf)
            /\ tier2_used_time <= MAX_TIER2_TIME
            /\ sch_pc = "exec2" =>
                  tier2_used_time + tasks[sch_task].offload_time <= MAX_TIER2_TIME)
    /\ [][mode = "sim" =>
             /\ tier2_used_time' >= tier2_used_time
             /\ PoppedTier2 =>
                   /\ sch_start = now
                   /\ IF tier2_used_time + tasks[sch_task].offload_time <= MAX_TIER2_TIME
                      THEN /\ sch_pc' = "exec2" /\ tier1_batch' = tier1_batch
                           /\ tasks' = tasks
                           /\ \E k \in 1..Len(sim_events') :
                                 sim_events'[k] = Timeout(now, tasks[sch_task].offload_time,
                                                          "scheduler", 0)
                      ELSE /\ sch_pc' = "top"
                           /\ tier1_batch' = Append(tier1_batch, <<sch_task, sch_start>>)
                           /\ tier2_used_time' = tier2_used_time
             /\ Tier2Done' # Tier2Done =>
                   /\ sch_pc = "exec2"
                   /\ Tier2Done' = Append(Tier2Done, sch_task)]_vars

\* two tasks have completed under Tier-2 and a third, decided Tier-2, has been
\* turned away by the budget their offload times had used up
C26_Witness ==
    /\ mode = "sim" /\ Len(Tier2Done) = 2 /\ tier2_used_time = 70
    /\ \E i \in FellBack : i \in Popped /\ tasks[i].offload_time <= MAX_TIER2_TIME

----------------------------------------------------------------------------
(* Python floats.

   simPy.py computes its times with Python floats (binary64): a result is the
   exact one rounded to 53 significant bits, to nearest, ties to even.  A float
   is modelled by the bits of its value from 2^(FloatInt - 1) down to
   2^(-FloatFrac), most significant first.  The values that occur (times up to
   SIM_END plus one execution time, offload times, their sums and differences)
   are below 2^FloatInt, and those with a bit below 2^(-FloatFrac + 1) are never the
   result of an inexact operation. *)

Mantissa == 53           \* sys.float_info.mant_dig
FloatInt == 10
FloatFrac == 53
FloatWidth == FloatInt + FloatFrac

\* float(n) of an int 0 <= n < 2^FloatInt
float(n) ==
    [i \in 1..FloatWidth |-> IF i <= FloatInt THEN (n \div 2^(FloatInt - i)) % 2 ELSE 0]
        \o <<>>

\* a < b and a <= b between floats: the first bit that differs decides
float_lt(a, b) ==
    /\ a # b
    /\ LET i == CHOOSE i \in 1..FloatWidth :
                    a[i] # b[i] /\ \A j \in 1..(i - 1) : a[j] = b[j]
       IN a[i] < b[i]
float_le(a, b) == a = b \/ float_lt(a, b)

\* a function on 1..FloatWidth, as the tuple of its values
Word(f) == f \o <<>>

\* the exact sum: bit i receives a carry when a lower position generates one
\* and every position in between passes it on
ExactSum(a, b) ==
    LET carry(i) == \E j \in (i + 1)..FloatWidth :
                        /\ a[j] + b[j] = 2
                        /\ \A k \in (i + 1)..(j - 1) : a[k] + b[k] = 1
    IN Word([i \in 1..FloatWidth |-> (a[i] + b[i] + (IF carry(i) THEN 1 ELSE 0)) % 2])

\* the exact difference, for a >= b
ExactDiff(a, b) ==
    LET borrow(i) == \E j \in (i + 1)..FloatWidth :
                         /\ a[j] < b[j]
                         /\ \A k \in (i + 1)..(j - 1) : a[k] = b[k]
    IN Word([i \in 1..FloatWidth |-> (a[i] - b[i] - (IF borrow(i) THEN 1 ELSE 0) + 2) % 2])

\* the position of the first 1 of x, 0 when x is zero
LeadingOne(x) ==
    IF \A i \in 1..FloatWidth : x[i] = 0 THEN 0
    ELSE CHOOSE i \in 1..FloatWidth : x[i] = 1 /\ \A j \in 1..(i - 1) : x[j] = 0

\* round to nearest, ties to even: x is the exact value cut at 2^(-FloatFrac)
\* and sticky tells whether anything non-zero was cut off
round_half_even(x, sticky) ==
    LET last == LeadingOne(x) + Mantissa - 1
        kept == Word([i \in 1..FloatWidth |-> IF i <= last THEN x[i] ELSE 0])
        ulp == Word([i \in 1..FloatWidth |-> IF i = last THEN 1 ELSE 0])
        rest == sticky \/ \E j \in (last + 2)..FloatWidth : x[j] = 1
    IN IF LeadingOne(x) = 0 \/ last >= FloatWidth THEN x
       ELSE IF x[last + 1] = 1 /\ (rest \/ x[last] = 1)
            THEN ExactSum(kept, ulp)
            ELSE kept

\* a + b and a - b (a >= b) of two floats
float_add(a, b) == round_half_even(ExactSum(a, b), FALSE)
float_sub(a, b) == round_half_even(ExactDiff(a, b), FALSE)

\* the bits 2^-1 .. 2^-FloatFrac of r / d for 0 <= r < d, and whether the rest
\* is non-zero; FracDigits yields them DigitBits at a time
DigitBits == 8
RECURSIVE FracDigits(_, _, _)
FracDigits(r, d, n) ==
    IF n = 0 THEN [digits |-> <<>>, rem |-> r]
    ELSE LET rest == FracDigits((r * 2^DigitBits) % d, d, n - 1)
         IN [digits |-> <<(r * 2^DigitBits) \div d>> \o rest.digits, rem |-> rest.rem]

FracBits(r, d) ==
    LET n == (FloatFrac + DigitBits - 1) \div DigitBits
        fd == FracDigits(r, d, n)
        bit(k) == (fd.digits[((k - 1) \div DigitBits) + 1]
                      \div 2^(DigitBits - 1 - ((k - 1) % DigitBits))) % 2
    IN [bits |-> [k \in 1..FloatFrac |-> bit(k)] \o <<>>,
        sticky |-> fd.rem # 0 \/ \E k \in (FloatFrac + 1)..(n * DigitBits) : bit(k) = 1]

\* w / d of two ints (true division), for 0 < d <= 2^23 and
\* d <= w < d * 2^FloatInt, or w / d exact
truediv(w, d) ==
    LET frac == FracBits(w % d, d)
    IN round_half_even(SubSeq(float(w \div d), 1, FloatInt) \o frac.bits, frac.sticky)

\* QoE.py lines 19-27, the time: Din / r_in + Dout / r_out + w / f_off
float_offload_time(w, Din, Dout) ==
    float_add(float_add(truediv(Din, 10), truediv(Dout, 10)), truediv(w, 200))

----------------------------------------------------------------------------
(* Specification SpecFloat: simPy.py with its clock in floats.

   task_source and scheduler as in SpecSim, with env.now, the event times,
   offload_time, tier2_used_time and the response time of update_metrics as
   floats.  The lines have ts 0.0, 1.0, 2.0, ... (ts is kept in hundredths),
   so that no two are less than 0.05 apart, and every energy compared by
   decide_tier differs from the other by more than 1 J.  The run_local_task
   processes that a Tier-1 batch starts are not followed here: they share
   nothing with the scheduler and the source but results and metrics, to
   which they add records labelled Tier-1-<resource>; results and metrics
   hold the Tier-2 records only. *)

MaxTimed == 3             \* most lines in the merged event list

FloatTs(k) == 100 * k

\* the kinds of lines: a SLAM line that reports nothing with 6.1 ms or 10.0 ms
\* to offload, a SLAM line with an obstacle and a near detection, a voice
\* line "play music" with 98 ms to offload
FloatEvents(ts) ==
    {<<SlamEvent(ts, FALSE, FALSE, TRUE, 0, 620), "slam">>,
     <<SlamEvent(ts, FALSE, FALSE, TRUE, 0, 1400), "slam">>,
     <<SlamEvent(ts, TRUE, TRUE, TRUE, 90, 100), "slam">>,
     <<VoiceEvent(ts, {}, 19000), "voice_recognition">>}

\* the ms of a time the model keeps in tenths of a ms, as a float
Ms(t) == float(t \div 10)

\* tier2.py lines 77-89 on a task whose offload_time is a float
float_decide_tier(task) ==
    IF task.QoE_class \in PinnedClasses THEN "Tier-1"
    ELSE IF float_le(task.offload_time, Ms(task.deadline_ms))
            /\ task.offload_energy < task.local_energy
         THEN "Tier-2"
         ELSE "Tier-1"

\* simPy.py lines 162-174
float_update_metrics(task, start, finish, tier, m) ==
    LET response == float_sub(finish, start)
        met_deadline == float_le(response, Ms(task.deadline_ms))
    IN [m EXCEPT !.total_tasks = @ + 1,
                 !.tiers[tier] = @ + 1,
                 !.QoE[task.QoE_class] = @ + 1,
                 !.deadline_met = @ + (IF met_deadline THEN 1 ELSE 0),
                 !.deadline_miss = @ + (IF met_deadline THEN 0 ELSE 1),
                 !.energy[tier] = @ + task.offload_energy]

\* env.timeout(d) at time t: the event is scheduled at t + d
FloatTimeout(t, d, kind) == Ev(float_add(t, d), 1, kind, 0)

\* the event env.step() processes next
FloatNextIdx(ev) ==
    CHOOSE k \in 1..Len(ev) : \A j \in 1..Len(ev) :
        \/ float_lt(ev[k].time, ev[j].time)
        \/ ev[k].time = ev[j].time /\ ev[k].prio < ev[j].prio
        \/ ev[k].time = ev[j].time /\ ev[k].prio = ev[j].prio /\ k <= j
FloatNextEvent == sim_events[FloatNextIdx(sim_events)]
FloatPending == RemoveAt(sim_events, FloatNextIdx(sim_events))

InitFloat ==
    /\ mode = "float"
    /\ tasks = <<>>
    /\ T2Idle /\ T1Idle /\ StreamIdle /\ LoopIdle
    /\ sim_pc = "run" /\ now = float(0) /\ sim_active = "none"
    /\ sim_events = <<Initialize(float(0), "source", 0), Initialize(float(0), "scheduler", 0)>>
    /\ src_count = 0 /\ src_prev_task_ts = 0 /\ src_last_voice = {}
    /\ sch_pc = "init" /\ sch_task = 0 /\ sch_start = float(0)
    /\ tier2_used_time = float(0) /\ tier1_batch = <<>>
    /\ users = [r \in ResourceSet |-> <<>>] /\ queue = [r \in ResourceSet |-> <<>>]
    /\ rl = <<>> /\ results = <<>> /\ metrics = NoMetrics

\* env.step(): the next event, before SIM_END, resumes the process waiting for it
FloatStep(kind) ==
    /\ mode = "float" /\ sim_pc = "run" /\ sim_active = "none"
    /\ float_lt(FloatNextEvent.time, Ms(SIM_END)) /\ FloatNextEvent.kind = kind
    /\ now' = FloatNextEvent.time

\* the scheduler process is running, between two of its yields
FloatRunning(at) ==
    mode = "float" /\ sim_pc = "run" /\ sim_active = "scheduler" /\ sch_pc = at

\* lines 36-49: one iteration of task_source's loop
FloatSourceEmit ==
    /\ FloatStep("source") /\ src_count < MaxTimed
    /\ \E et \in FloatEvents(FloatTs(src_count)) :
          LET e == et[1]
              ttype == et[2]
              lv == IF ttype = "voice_recognition" THEN e.voice ELSE src_last_voice
              enriched == [enrich_task(e, ttype, src_prev_task_ts, lv) EXCEPT
                              !.offload_time = float_offload_time(e.workload, e.Din, e.Dout)]
              task == [enriched EXCEPT !.assigned_tier = float_decide_tier(enriched)]
              store == Append(tasks, task)
              pushed == heappush(store, task_queue, Len(store))
          IN /\ tasks' = store
             /\ task_queue' = pushed.h
             /\ src_last_voice' = lv
             /\ src_prev_task_ts' = e.ts
             /\ IF pushed.raised
                THEN sim_pc' = "crashed" /\ sim_events' = FloatPending
                ELSE /\ sim_pc' = sim_pc
                     /\ sim_events' = Append(FloatPending,
                                             FloatTimeout(now', Ms(INTER_ARRIVAL), "source"))
    /\ src_count' = src_count + 1
    /\ UNCHANGED <<mode, varsLoop, varsT2, varsT1, varsStreamRest, sim_active, sch_pc, sch_task,
                   sch_start, tier2_used_time, tier1_batch, users, queue, rl, results,
                   metrics>>

\* line 36: the list of events is exhausted
FloatSourceEnd ==
    /\ FloatStep("source")
    /\ sim_events' = FloatPending
    /\ UNCHANGED <<mode, varsLoop, tasks, varsT2, varsT1, task_queue, varsStreamRest, sim_pc,
                   sim_active, src_count, src_prev_task_ts, src_last_voice, sch_pc,
                   sch_task, sch_start, tier2_used_time, tier1_batch, users, queue, rl,
                   results, metrics>>

\* lines 63-69, 134-156 and 159: the scheduler starts, or wakes from a 1 ms
\* timeout; after the wait for a residual batch, the batch is handed to the
\* Tier-1 scheduler and cleared
FloatSchedWake ==
    /\ FloatStep("scheduler") /\ sch_pc \in {"init", "idle", "flush_wait"}
    /\ sim_events' = FloatPending
    /\ tier1_batch' = IF sch_pc = "flush_wait" THEN <<>> ELSE tier1_batch
    /\ sim_active' = "scheduler" /\ sch_pc' = "top"
    /\ UNCHANGED <<mode, varsLoop, tasks, varsT2, varsT1, task_queue, varsStreamRest, sim_pc,
                   src_count, src_prev_task_ts, src_last_voice, sch_task, sch_start,
                   tier2_used_time, users, queue, rl, results, metrics>>

\* lines 70-73
FloatSchedPop ==
    /\ FloatRunning("top") /\ task_queue # <<>>
    /\ LET r == heappop(tasks, task_queue)
       IN /\ task_queue' = r.h
          /\ sch_task' = r.item
          /\ IF r.raised THEN sim_pc' = "crashed" /\ sch_pc' = sch_pc
             ELSE sim_pc' = sim_pc /\ sch_pc' = "popped"
    /\ sch_start' = now
    /\ UNCHANGED <<mode, varsLoop, tasks, varsT2, varsT1, varsStreamRest, now, sim_events,
                   sim_active, src_count, src_prev_task_ts, src_last_voice,
                   tier2_used_time, tier1_batch, users, queue, rl, results, metrics>>

\* lines 76-110: the task joins the batch; a full batch is handed to the
\* Tier-1 scheduler and cleared
FloatSchedTier1 ==
    /\ FloatRunning("popped") /\ tasks[sch_task].assigned_tier = "Tier-1"
    /\ LET batch == Append(tier1_batch, <<sch_task, sch_start>>)
       IN tier1_batch' = IF Len(batch) >= BATCH_SIZE THEN <<>> ELSE batch
    /\ sch_pc' = "top"
    /\ UNCHANGED <<mode, varsLoop, tasks, varsT2, varsT1, task_queue, varsStreamRest, sim_pc, now,
                   sim_events, sim_active, src_count, src_prev_task_ts, src_last_voice,
                   sch_task, sch_start, tier2_used_time, users, queue, rl, results,
                   metrics>>

\* lines 112-118: the task fits the budget; wait for its offload time
FloatSchedTier2Admit ==
    /\ FloatRunning("popped") /\ tasks[sch_task].assigned_tier # "Tier-1"
    /\ float_le(float_add(tier2_used_time, tasks[sch_task].offload_time), Ms(MAX_TIER2_TIME))
    /\ sim_events' = Append(sim_events,
                            FloatTimeout(now, tasks[sch_task].offload_time, "scheduler"))
    /\ sch_pc' = "exec2" /\ sim_active' = "none"
    /\ UNCHANGED <<mode, varsLoop, tasks, varsT2, varsT1, task_queue, varsStreamRest, sim_pc, now,
                   src_count, src_prev_task_ts, src_last_voice, sch_task, sch_start,
                   tier2_used_time, tier1_batch, users, queue, rl, results, metrics>>

\* lines 119-122: the offload time has passed
FloatTier2Done ==
    /\ FloatStep("scheduler") /\ sch_pc = "exec2"
    /\ sim_events' = FloatPending
    /\ tier2_used_time' = float_add(tier2_used_time, tasks[sch_task].offload_time)
    /\ results' = Append(results, [finish_time |-> now', label |-> "Tier-2", task |-> sch_task])
    /\ metrics' = float_update_metrics(tasks[sch_task], sch_start, now', "Tier-2", metrics)
    /\ sim_active' = "scheduler" /\ sch_pc' = "top"
    /\ UNCHANGED <<mode, varsLoop, tasks, varsT2, varsT1, task_queue, varsStreamRest, sim_pc,
                   src_count, src_prev_task_ts, src_last_voice, sch_task, sch_start,
                   tier1_batch, users, queue, rl>>

\* lines 123-127
FloatSchedFallback ==
    /\ FloatRunning("popped") /\ tasks[sch_task].assigned_tier # "Tier-1"
    /\ ~ float_le(float_add(tier2_used_time, tasks[sch_task].offload_time),
                  Ms(MAX_TIER2_TIME))
    /\ tasks' = [tasks EXCEPT ![sch_task].assigned_tier = "Tier-1"]
    /\ tier1_batch' = Append(tier1_batch, <<sch_task, sch_start>>)
    /\ sch_pc' = "top"
    /\ UNCHANGED <<mode, varsLoop, varsT2, varsT1, task_queue, varsStreamRest, sim_pc, now,
                   sim_events, sim_active, src_count, src_prev_task_ts, src_last_voice,
                   sch_task, sch_start, tier2_used_time, users, queue, rl, results,
                   metrics>>

\* lines 128-134 and 157-159: the queue is empty; wait 1 ms
FloatSchedIdle ==
    /\ FloatRunning("top") /\ task_queue = <<>>
    /\ sim_events' = Append(sim_events, FloatTimeout(now, Ms(POLL), "scheduler"))
    /\ sch_pc' = IF tier1_batch # <<>> THEN "flush_wait" ELSE "idle"
    /\ sim_active' = "none"
    /\ UNCHANGED <<mode, varsLoop, tasks, varsT2, varsT1, task_queue, varsStreamRest, sim_pc, now,
                   src_count, src_prev_task_ts, src_last_voice, sch_task, sch_start,
                   tier2_used_time, tier1_batch, users, queue, rl, results, metrics>>

\* line 203: env.run(until=SIM_END) returns
FloatEnd ==
    /\ mode = "float" /\ sim_pc = "run" /\ sim_active = "none"
    /\ ~ float_lt(FloatNextEvent.time, Ms(SIM_END))
    /\ now' = Ms(SIM_END)
    /\ sim_pc' = "ended"
    /\ UNCHANGED <<mode, varsLoop, tasks, varsT2, varsT1, task_queue, varsStreamRest, sim_events,
                   sim_active, src_count, src_prev_task_ts, src_last_voice, sch_pc,
                   sch_task, sch_start, tier2_used_time, tier1_batch, users, queue, rl,
                   results, metrics>>

NextFloat ==
    \/ FloatSourceEmit \/ FloatSourceEnd
    \/ FloatSchedWake \/ FloatSchedPop \/ FloatSchedTier1
    \/ FloatSchedTier2Admit \/ FloatTier2Done \/ FloatSchedFallback
    \/ FloatSchedIdle \/ FloatEnd

SpecFloat == InitFloat /\ [][NextFloat]_vars

----------------------------------------------------------------------------
(* C27 *)

\* C27: in simulation mode every task completed under label Tier-2 has a
\* response time (finish - start) exactly equal to its offload_time, whatever
\* else is queued or executing, and is counted in deadline_met, never in
\* deadline_miss.
C27_Tier2ResponseIsOffloadTime ==
    [][mode = "float" /\ Len(results') > Len(results) =>
          /\ results'[Len(results')].label = "Tier-2"
          /\ results'[Len(results')].task = sch_task
          /\ float_sub(results'[Len(results')].finish_time, sch_start)
                = tasks[sch_task].offload_time
          /\ metrics'.deadline_met = metrics.deadline_met + 1
          /\ metrics'.deadline_miss = 0]_vars

====
